---- MODULE Spec2Model ----
(***************************************************************************)
(* Court-data-fetcher: the Delhi High Court scraper (scraper.py), its       *)
(* Flask front end (app.py) and the persistence calls the front end makes   *)
(* (database.py), as a state machine.                                       *)
(*                                                                         *)
(* A thread is a caller of DelhiHighCourtScraper.search_case.  Every        *)
(* driver call of search_case is one step; what the browser answers         *)
(* (success, timeout, missing control, page text) is chosen by the          *)
(* environment at that step.                                                *)
(***************************************************************************)
EXTENDS Integers, Sequences, FiniteSets, TLC

(***************************************************************************)
(* Bounds of the model.                                                     *)
(***************************************************************************)
MaxAttempts == 2      \* search_case calls made by the direct caller
MaxDel == 2           \* invocations of DelhiHighCourtScraper.__del__
NumThreads == 2       \* concurrent /search requests of the front end
MaxFrags == 2         \* fragments concatenated into one page text
MaxRequests == 1      \* /search requests served by one thread
MaxRows == 3          \* table rows of a rendered document
MaxNodes == 3         \* elements of a rendered document searched for the title

Threads == 1..NumThreads
Caller == 1           \* the thread that calls search_case directly

VARIABLES
    driverRef,   \* self.driver is not None
    session,     \* the browser session behind self.driver: "live" | "released"
    quitCalls,   \* how many times driver.quit() has been called
    delCalls,    \* how many times __del__ has been invoked
    delRaised,   \* some __del__ invocation raised to its caller
    form,        \* the page loaded in the browser: its captcha control and field values
    attempt,     \* per thread: the search_case call in progress
    attempts,    \* per thread: search_case calls started
    page,        \* page text handed to the Result Classifier
    classified,  \* what _check_for_errors returned for `page`
    req,         \* per thread: the /search request being served (app.py)
    searches,    \* rows of table searches, by id (database.py)
    cases,       \* rows of table cases, in insertion order (database.py)
    orders,      \* rows of table orders, in insertion order (database.py)
    saves,       \* the save_case_data calls that committed: search id and record
    lookup,      \* what the last get_case_by_search_id call returned
    txn,         \* the save_case_data call in progress: its uncommitted inserts
    ctor,        \* DelhiHighCourtScraper.__init__: "new" | "ok" | "failed"
    created,     \* how many sessions webdriver.Chrome(...) has created
    href,        \* an anchor reference handed to the URL resolution
    resolved,    \* the document URL computed for `href`
    doc,         \* a rendered document handed to the field extractors
    scan         \* the field extractors' progress over `doc`

lifecycle == <<driverRef, session, quitCalls, delCalls, delRaised, ctor, created>>
pureVars == <<page, classified, href, resolved, doc, scan>>
appVars == <<req, searches, cases, orders, saves, lookup, txn>>
vars == <<driverRef, session, quitCalls, delCalls, delRaised, form,
          attempt, attempts, page, classified, req, searches, cases,
          orders, saves, lookup, txn, ctor, created, href, resolved, doc, scan>>

(***************************************************************************)
(* Text.  A text is a sequence of one-character strings, so that lower()    *)
(* and the `in` substring test of Python are computed, not assumed.         *)
(***************************************************************************)
UpperChars == <<"A","B","C","D","E","F","G","H","I","J","K","L","M",
                "N","O","P","Q","R","S","T","U","V","W","X","Y","Z">>
LowerChars == <<"a","b","c","d","e","f","g","h","i","j","k","l","m",
                "n","o","p","q","r","s","t","u","v","w","x","y","z">>

\* str.lower() on one character
LowerChar(c) ==
    IF \E i \in 1..Len(UpperChars) : UpperChars[i] = c
    THEN LowerChars[CHOOSE i \in 1..Len(UpperChars) : UpperChars[i] = c]
    ELSE c

\* the page source compared as it is, without lower()
LowerForgotten(s) == s

\* str.lower()
Lower(s) == [i \in 1..Len(s) |-> LowerChar(s[i])]

RECURSIVE StripLeft(_)
StripLeft(s) == IF s # <<>> /\ Head(s) = " " THEN StripLeft(Tail(s)) ELSE s

RECURSIVE StripRight(_)
StripRight(s) ==
    IF s # <<>> /\ s[Len(s)] = " " THEN StripRight(SubSeq(s, 1, Len(s) - 1)) ELSE s

\* the text taken as it is, nothing trimmed
StripForgotten(s) == s

\* str.strip()
Strip(s) == StripRight(StripLeft(s))

\* Python's `needle in hay` on strings
Contains(hay, needle) ==
    \E i \in 0..(Len(hay) - Len(needle)) :
        SubSeq(hay, i + 1, i + Len(needle)) = needle

\* scraper.py:163-169
error_indicators ==
    << <<"n","o"," ","r","e","c","o","r","d"," ","f","o","u","n","d">>,
       <<"i","n","v","a","l","i","d"," ","c","a","s","e"," ","n","u","m","b","e","r">>,
       <<"c","a","p","t","c","h","a"," ","m","i","s","m","a","t","c","h">>,
       <<"e","r","r","o","r"," ","o","c","c","u","r","r","e","d">>,
       <<"t","r","y"," ","a","g","a","i","n">> >>

\* _check_for_errors on a page source that was retrieved (scraper.py:161-175)
check_for_errors(page_source) ==
    LET lowered == Lower(page_source)
    IN  \E i \in 1..Len(error_indicators) : Contains(lowered, error_indicators[i])

\* _check_for_errors answering "no error" when the page source cannot be read
CheckExceptClean == FALSE

\* _check_for_errors when driver.page_source raises (scraper.py:177-179)
CheckExcept == TRUE

\* Page texts: up to MaxFrags fragments, concatenated.
Fragments ==
    { <<"N","o"," ","R","e","c","o","r","d"," ","F","o","u","n","d">>,
      <<"I","N","V","A","L","I","D"," ","C","A","S","E"," ","N","U","M","B","E","R">>,
      <<"C","a","p","t","c","h","a"," ","M","i","s","m","a","t","c","h">>,
      <<"E","r","r","o","r"," ","o","c","c","u","r","r","e","d">>,
      <<"t","r","y"," ","a","g","a","i","n">>,
      <<"n","o"," ","r","e","c","o","r","d">>,
      <<" ","f","o","u","n","d">>,
      <<"T","r","y">>,
      <<" ","A","G","A","I","N">>,
      <<"A","g","a","i","n">>,
      <<"C","a","s","e"," ","D","e","t","a","i","l","s">> }

RECURSIVE PagesOf(_)
PagesOf(n) ==
    IF n = 0 THEN { <<>> }
    ELSE LET shorter == PagesOf(n - 1)
         IN  shorter \cup { p \o f : p \in shorter, f \in Fragments }

Pages == PagesOf(MaxFrags)

\* The pages the browser shows after a submit, in the attempt machine.
ResultPages ==
    { <<"C","a","s","e"," ","D","e","t","a","i","l","s">>,
      <<"N","o"," ","R","e","c","o","r","d"," ","F","o","u","n","d">>,
      <<"T","r","y">> \o <<" ","A","G","A","I","N">> }

(***************************************************************************)
(* Exceptions.  An exception is named by its class.                        *)
(***************************************************************************)
\* search_case without its `except Exception` clause: every exception passes
SearchExceptPassThrough(e) == e

\* except clauses of search_case (scraper.py:118-122)
SearchExcept(e) ==
    IF e = "CaptchaRequiredException" THEN "CaptchaRequiredException"
    ELSE "ScrapingException"

\* except clause of _fill_search_form (scraper.py:154-156): `except Exception`
\* catches every exception raised in the body, CaptchaRequiredException too
FillExcept(e) == "ScrapingException"

\* except clause of _parse_case_results (scraper.py:219-221)
ParseExcept(e) == "ScrapingException"

\* the Outcome a caller of search_case sees
OutcomeOf(delivered) ==
    CASE delivered = "return" -> "Parsed"
      [] delivered = "CaptchaRequiredException" -> "ChallengeRequired"
      [] delivered = "ScrapingException" -> "Failure"
      [] OTHER -> "Other"

\* `if captcha_code:` (scraper.py:141): None and "" are falsy
\* (None is kept apart from every text by a character no text contains)
None == << "<None>" >>
Truthy(v) == v # None /\ v # <<>>

(***************************************************************************)
(* The browser.                                                            *)
(***************************************************************************)
CaptchaStates == {"absent", "hidden", "visible"}
EmptyValues == [case_type |-> <<>>, case_number |-> <<>>, year |-> <<>>, captcha |-> <<>>]
BlankForm == [captcha |-> "absent", values |-> EmptyValues]

\* what a driver call can answer: a released session answers no call
DriverResults(faults) ==
    IF driverRef /\ session = "live" THEN {"ok"} \cup faults ELSE {"WebDriverException"}

(***************************************************************************)
(* One search_case call (scraper.py:85-122).                               *)
(***************************************************************************)
NoQuery == [case_type |-> <<>>, case_number |-> <<>>, year |-> <<>>]
IdleAttempt ==
    [pc |-> "idle", query |-> NoQuery, code |-> None, events |-> <<>>,
     outcomes |-> <<>>, rawExc |-> "none", faultAt |-> "none",
     fillResult |-> "none", errorFound |-> "none"]

InFlight(t) == attempt[t].pc \notin {"idle", "done"}

\* the driver call `ev` is issued
Issued(a, ev) == [a EXCEPT !.events = Append(@, ev)]

\* exception e is raised by the statement at `at`
Fault(a, e, at) ==
    IF a.rawExc = "none" THEN [a EXCEPT !.rawExc = e, !.faultAt = at] ELSE a

\* search_case starting over after an exception instead of ending the attempt
RaiseInSearchRetry(a, e) == [a EXCEPT !.pc = "get"]

\* e propagates out of the try body of search_case
RaiseInSearch(a, e) ==
    [a EXCEPT !.pc = "done", !.outcomes = Append(@, SearchExcept(e))]

\* _fill_search_form logging the exception and returning normally
RaiseInFillSwallowed(a, e) ==
    [a EXCEPT !.pc = "find_submit", !.fillResult = FillExcept(e)]

\* e propagates out of the try body of _fill_search_form, called at line 99
RaiseInFill(a, e) ==
    RaiseInSearch([a EXCEPT !.fillResult = FillExcept(e)], FillExcept(e))

\* scraper.py:85-88: the call is entered
search_case_begin(t, q, c) ==
    /\ attempt[t].pc \in {"idle", "done"}
    /\ attempt' = [attempt EXCEPT ![t] =
                      [IdleAttempt EXCEPT !.pc = "get", !.query = q, !.code = c]]
    /\ attempts' = [attempts EXCEPT ![t] = @ + 1]

\* scraper.py:91 driver.get(BASE_URL)
driver_get(t) ==
    /\ attempt[t].pc = "get"
    /\ \E r \in DriverResults({"TimeoutException", "WebDriverException"}) :
         IF r = "ok"
         THEN /\ \E c \in CaptchaStates : form' = [captcha |-> c, values |-> EmptyValues]
              /\ attempt' = [attempt EXCEPT ![t] = [Issued(@, "get") EXCEPT !.pc = "wait"]]
         ELSE /\ form' = form
              /\ attempt' = [attempt EXCEPT ![t] =
                                RaiseInSearch(Fault(Issued(@, "get"), r, "get"), r)]
    /\ UNCHANGED <<lifecycle, attempts, pureVars, appVars>>

\* scraper.py:94-96 WebDriverWait(...).until(presence_of_element_located(case_type))
wait_for_form(t) ==
    /\ attempt[t].pc = "wait"
    /\ \E r \in DriverResults({"TimeoutException", "WebDriverException"}) :
         attempt' = [attempt EXCEPT ![t] =
            IF r = "ok" THEN [Issued(@, "wait") EXCEPT !.pc = "case_type"]
            ELSE RaiseInSearch(Fault(Issued(@, "wait"), r, "wait"), r)]
    /\ UNCHANGED <<lifecycle, form, attempts, pureVars, appVars>>

\* one of the three required fields of _fill_search_form (scraper.py:127-138)
fill_field(t, field, next) ==
    /\ attempt[t].pc = field
    /\ \E r \in DriverResults({"NoSuchElementException", "WebDriverException"}) :
         IF r = "ok"
         THEN /\ form' = [form EXCEPT !.values[field] = attempt[t].query[field]]
              /\ attempt' = [attempt EXCEPT ![t] = [Issued(@, field) EXCEPT !.pc = next]]
         ELSE /\ form' = form
              /\ attempt' = [attempt EXCEPT ![t] =
                                RaiseInFill(Fault(Issued(@, field), r, field), r)]
    /\ UNCHANGED <<lifecycle, attempts, pureVars, appVars>>

\* scraper.py:128-129
fill_case_type(t) == fill_field(t, "case_type", "case_number")
\* scraper.py:132-134
fill_case_number(t) == fill_field(t, "case_number", "year")
\* scraper.py:137-138
fill_year(t) == fill_field(t, "year", "captcha")

\* scraper.py:140-152, the CAPTCHA branch of _fill_search_form, and its return
handle_captcha(t) ==
    /\ attempt[t].pc = "captcha"
    /\ \E r \in DriverResults({"WebDriverException"}) :
         LET a == Issued(attempt[t], "captcha")
             filled == [a EXCEPT !.pc = "find_submit", !.fillResult = "ok"]
         IN
         IF r # "ok"
         THEN /\ form' = form
              /\ attempt' = [attempt EXCEPT ![t] = RaiseInFill(Fault(a, r, "captcha"), r)]
         ELSE IF Truthy(a.code)
         THEN \* lines 142-144: find_element is not guarded here
              IF form.captcha = "absent"
              THEN /\ form' = form
                   /\ attempt' = [attempt EXCEPT ![t] =
                         RaiseInFill(Fault(a, "NoSuchElementException", "captcha"),
                                     "NoSuchElementException")]
              ELSE /\ form' = [form EXCEPT !.values.captcha = a.code]
                   /\ attempt' = [attempt EXCEPT ![t] = filled]
         ELSE \* lines 147-152
              /\ form' = form
              /\ attempt' = [attempt EXCEPT ![t] =
                    IF form.captcha = "visible"
                    THEN RaiseInFill(Fault(a, "CaptchaRequiredException", "captcha"),
                                     "CaptchaRequiredException")
                    ELSE filled]
    /\ UNCHANGED <<lifecycle, attempts, pureVars, appVars>>

\* scraper.py:102 driver.find_element(By.XPATH, "//input[@type='submit']")
find_submit(t) ==
    /\ attempt[t].pc = "find_submit"
    /\ \E r \in DriverResults({"NoSuchElementException", "WebDriverException"}) :
         attempt' = [attempt EXCEPT ![t] =
            IF r = "ok" THEN [Issued(@, "find_submit") EXCEPT !.pc = "click"]
            ELSE RaiseInSearch(Fault(Issued(@, "find_submit"), r, "find_submit"), r)]
    /\ UNCHANGED <<lifecycle, form, attempts, pureVars, appVars>>

\* scraper.py:103 submit_button.click()
click_submit(t) ==
    /\ attempt[t].pc = "click"
    /\ \E r \in DriverResults({"TimeoutException", "WebDriverException"}) :
         attempt' = [attempt EXCEPT ![t] =
            IF r = "ok" THEN [Issued(@, "click") EXCEPT !.pc = "sleep"]
            ELSE RaiseInSearch(Fault(Issued(@, "click"), r, "click"), r)]
    /\ UNCHANGED <<lifecycle, form, attempts, pureVars, appVars>>

\* scraper.py:106 time.sleep(3)
settle_delay(t) ==
    /\ attempt[t].pc = "sleep"
    /\ attempt' = [attempt EXCEPT ![t] = [Issued(@, "sleep") EXCEPT !.pc = "classify"]]
    /\ UNCHANGED <<lifecycle, form, attempts, pureVars, appVars>>

\* search_case parsing the page whatever the classifier answered
AfterClassifyIgnored(a, found) ==
    [a EXCEPT !.errorFound = IF found THEN "error" ELSE "clean", !.pc = "parse"]

\* scraper.py:109-110: `if self._check_for_errors(): raise ScrapingException(...)`
AfterClassify(a, found) ==
    IF found
    THEN RaiseInSearch([a EXCEPT !.errorFound = "error"], "ScrapingException")
    ELSE [a EXCEPT !.errorFound = "clean", !.pc = "parse"]

\* scraper.py:109 with _check_for_errors (scraper.py:158-179)
classify_result(t) ==
    /\ attempt[t].pc = "classify"
    /\ \E r \in DriverResults({"WebDriverException"}) :
         LET a == Issued(attempt[t], "classify")
         IN  IF r = "ok"
             THEN \E p \in ResultPages :
                    attempt' = [attempt EXCEPT ![t] = AfterClassify(a, check_for_errors(p))]
             ELSE attempt' = [attempt EXCEPT ![t] =
                                 AfterClassify(Fault(a, r, "classify"), CheckExcept)]
    /\ UNCHANGED <<lifecycle, form, attempts, pureVars, appVars>>

\* scraper.py:113-116 with _parse_case_results (scraper.py:181-221)
parse_case_results(t) ==
    /\ attempt[t].pc = "parse"
    /\ \E r \in DriverResults({"WebDriverException"}) :
         LET a == Issued(attempt[t], "parse")
         IN  attempt' = [attempt EXCEPT ![t] =
                IF r = "ok"
                THEN [a EXCEPT !.pc = "done", !.outcomes = Append(@, "return")]
                ELSE RaiseInSearch(Fault(a, r, "parse"), ParseExcept(r))]
    /\ UNCHANGED <<lifecycle, form, attempts, pureVars, appVars>>

\* any step of a search_case call that is in flight
search_case_step(t) ==
    \/ driver_get(t)
    \/ wait_for_form(t)
    \/ fill_case_type(t)
    \/ fill_case_number(t)
    \/ fill_year(t)
    \/ handle_captcha(t)
    \/ find_submit(t)
    \/ click_submit(t)
    \/ settle_delay(t)
    \/ classify_result(t)
    \/ parse_case_results(t)

(***************************************************************************)
(* The scraper used directly: one caller, one search_case call at a time,  *)
(* and __del__ between calls.                                              *)
(***************************************************************************)
CaseTypes == { <<"W",".","P",".","(","C",")">>, <<"C","R","L",".","A",".">> }
CaseNumbers == { <<"1","2","3","4","5">> }
Years == { <<"2","0","2","4">> }
Codes == { None, <<>>, <<"A","B","1","2">> }
WellFormedQueries == [case_type : CaseTypes, case_number : CaseNumbers, year : Years]

StartSearch ==
    /\ attempts[Caller] < MaxAttempts
    /\ \E q \in WellFormedQueries, c \in Codes : search_case_begin(Caller, q, c)
    /\ UNCHANGED <<lifecycle, form, pureVars, appVars>>

\* what driver.quit() does to the session, and whether it raises
\* (a quit sent to a session that is already gone may fail)
QuitResults == IF session = "live" THEN {"ok"} ELSE {"ok", "WebDriverException"}

\* __del__ with its guard inverted (`if not self.driver`): the driver is kept
DelKeepsSession ==
    /\ delCalls < MaxDel
    /\ ~InFlight(Caller)
    /\ delCalls' = delCalls + 1
    /\ UNCHANGED <<quitCalls, session, delRaised>>
    /\ UNCHANGED <<driverRef, ctor, created, form, attempt, attempts, pureVars, appVars>>

\* DelhiHighCourtScraper.__del__ (scraper.py:415-421)
Del ==
    /\ delCalls < MaxDel
    /\ ~InFlight(Caller)
    /\ delCalls' = delCalls + 1
    /\ IF driverRef
       THEN /\ quitCalls' = quitCalls + 1
            /\ session' = "released"
            /\ \E r \in QuitResults : delRaised' = delRaised    \* line 420 catches
       ELSE UNCHANGED <<quitCalls, session, delRaised>>
    /\ UNCHANGED <<driverRef, ctor, created, form, attempt, attempts, pureVars, appVars>>

(***************************************************************************)
(* Persistence (database.py).  A table is the sequence of its rows in      *)
(* insertion order; the AUTOINCREMENT id of a row is its position.         *)
(***************************************************************************)
\* the record _parse_case_results starts from (scraper.py:186-195)
EmptyRecord ==
    [case_title |-> None, petitioner |-> None, respondent |-> None, filing_date |-> None,
     next_hearing_date |-> None, case_status |-> None, bench_info |-> None, orders |-> <<>>]

\* the row save_case_data inserts into cases (database.py:167-182)
CaseRow(search_id, case_data) ==
    [search_id |-> search_id, case_title |-> case_data.case_title,
     petitioner |-> case_data.petitioner, respondent |-> case_data.respondent,
     filing_date |-> case_data.filing_date,
     next_hearing_date |-> case_data.next_hearing_date,
     case_status |-> case_data.case_status, bench_info |-> case_data.bench_info]

\* the row save_case_data inserts into orders (database.py:189-199)
OrderRow(case_id, order) ==
    [case_id |-> case_id, order_date |-> order.date, order_type |-> order.type,
     pdf_url |-> order.pdf_url, order_text |-> order.text]

\* database.py:167-201: the case row, then one row per order, one commit
SaveCommitted(search_id, case_data) ==
    /\ cases' = Append(cases, CaseRow(search_id, case_data))
    /\ orders' = orders \o [i \in 1..Len(case_data.orders) |->
                               OrderRow(Len(cases) + 1, case_data.orders[i])]
    /\ saves' = Append(saves, [search_id |-> search_id, record |-> case_data])

\* no save_case_data call in progress
NoTxn ==
    [pc |-> "idle", search_id |-> 0, record |-> EmptyRecord, case_inserted |-> FALSE,
     orders_inserted |-> 0]

\* nothing looked up yet
NoLookup == [pc |-> "none", search_id |-> 0, search |-> <<>>, case |-> <<>>, orders |-> <<>>]

NoData == [case_type |-> <<>>, case_number |-> <<>>, year |-> <<>>, captcha_code |-> <<>>]
IdleRequest ==
    [pc |-> "none", raw |-> NoData, data |-> NoData, search_id |-> 0, response |-> "none",
     served |-> 0]

\* the scraper after a successful __init__ (scraper.py:32-34, 36-60)
InitConstructed ==
    /\ driverRef = TRUE
    /\ session = "live"
    /\ ctor = "ok"
    /\ created = 1

\* nothing released, no call in flight, no request, empty tables
InitIdle ==
    /\ quitCalls = 0
    /\ delCalls = 0
    /\ delRaised = FALSE
    /\ form = BlankForm
    /\ attempt = [t \in Threads |-> IdleAttempt]
    /\ attempts = [t \in Threads |-> 0]
    /\ req = [t \in Threads |-> IdleRequest]
    /\ searches = <<>>
    /\ cases = <<>>
    /\ orders = <<>>
    /\ saves = <<>>
    /\ lookup = NoLookup
    /\ txn = NoTxn

\* no input handed to the classifier, the URL resolution or the extractors
NoPage == page = <<>> /\ classified = "none"
NoHref == href = <<>> /\ resolved = [pc |-> "none", pdf_url |-> None]
NoDoc == doc = <<>> /\ scan = [pc |-> "none"]


Init ==
    /\ InitConstructed
    /\ InitIdle
    /\ NoPage
    /\ NoHref
    /\ NoDoc

Next ==
    \/ StartSearch
    \/ search_case_step(Caller)
    \/ Del

Spec == Init /\ [][Next]_vars

(***************************************************************************)
(* Properties of one search_case call.                                     *)
(***************************************************************************)
Range(seq) == { seq[i] : i \in 1..Len(seq) }
Count(seq, x) == Cardinality({ i \in 1..Len(seq) : seq[i] = x })
IsPrefix(p, q) == Len(p) <= Len(q) /\ SubSeq(q, 1, Len(p)) = p

\* the driver calls of a complete attempt, in program order
StepOrder ==
    <<"get", "wait", "case_type", "case_number", "year", "captcha",
      "find_submit", "click", "sleep", "classify", "parse">>
FillSteps == <<"get", "wait", "case_type", "case_number", "year", "captcha">>

\* the driver itself faulted (as opposed to: the control is not on the page)
DriverFaulted(a) == a.rawExc \in {"WebDriverException", "TimeoutException"}

\* C1: a search_case call with a well-formed query ends with exactly one
\* outcome, which is Parsed, ChallengeRequired or Failure; while the call is
\* in flight it has delivered no outcome.
C1_ExactlyOneOutcome ==
    LET a == attempt[Caller]
    IN  /\ a.pc = "done" =>
              /\ Len(a.outcomes) = 1
              /\ OutcomeOf(a.outcomes[1]) \in {"Parsed", "ChallengeRequired", "Failure"}
        /\ a.pc # "done" => a.outcomes = <<>>

C1_Witness ==
    /\ attempt[Caller].pc = "done"
    /\ attempt[Caller].query \in WellFormedQueries
    /\ attempt[Caller].rawExc = "NoSuchElementException"
    /\ attempts[Caller] = 2

\* C2: once the CAPTCHA branch of _fill_search_form has run without a driver
\* fault, CaptchaRequiredException leaves _fill_search_form, and search_case,
\* if and only if the control named "captcha" is displayed and no code was
\* supplied.
C2_ChallengeIffVisibleAndNoCode ==
    LET a == attempt[Caller]
        required == form.captcha = "visible" /\ ~Truthy(a.code)
    IN  ("captcha" \in Range(a.events) /\ ~DriverFaulted(a)) =>
            /\ (a.fillResult = "CaptchaRequiredException") <=> required
            /\ a.pc = "done" =>
                 ((OutcomeOf(a.outcomes[1]) = "ChallengeRequired") <=> required)

\* C3: the driver calls of an attempt are a prefix of the program order
\* get, wait, case_type, case_number, year, captcha, find_submit, click,
\* sleep, classify, parse; an attempt is Parsed only after all of them; and
\* an attempt in which the challenge is detected, or that ends in
\* ChallengeRequired, has navigated and populated the three fields with the
\* query, and has not clicked submit, classified or parsed.
C3_StepOrder ==
    LET a == attempt[Caller]
        challenged ==
            \/ a.rawExc = "CaptchaRequiredException"
            \/ a.pc = "done" /\ OutcomeOf(a.outcomes[1]) = "ChallengeRequired"
    IN  /\ IsPrefix(a.events, StepOrder)
        /\ (a.pc = "done" /\ OutcomeOf(a.outcomes[1]) = "Parsed") => a.events = StepOrder
        /\ challenged =>
              /\ a.events = FillSteps
              /\ form.values.case_type = a.query.case_type
              /\ form.values.case_number = a.query.case_number
              /\ form.values.year = a.query.year

C3_Witness ==
    /\ attempt[Caller].rawExc = "CaptchaRequiredException"
    /\ attempt[Caller].pc = "done"
    /\ attempt[Caller].events = FillSteps

\* C4: when the control named "captcha" is absent and the driver does not
\* fault, _fill_search_form returns normally, with or without a code; when
\* the control is present and a code was supplied, the code is written into
\* the control and _fill_search_form returns normally.
C4_AbsentControlIsNoError ==
    LET a == attempt[Caller]
    IN  ("captcha" \in Range(a.events) /\ ~DriverFaulted(a)) =>
            /\ form.captcha = "absent" => a.fillResult = "ok"
            /\ (form.captcha # "absent" /\ Truthy(a.code)) =>
                  (a.fillResult = "ok" /\ form.values.captcha = a.code)

\* C6: when reading the page source fails inside _check_for_errors, the
\* classifier answers "error" and the attempt ends in Failure without parsing.
C6_ClassifierFaultIsFailure ==
    LET a == attempt[Caller]
    IN  a.faultAt = "classify" =>
            /\ a.errorFound = "error"
            /\ a.pc = "done"
            /\ Len(a.outcomes) = 1
            /\ OutcomeOf(a.outcomes[1]) = "Failure"
            /\ "parse" \notin Range(a.events)

C6_Witness ==
    /\ attempt[Caller].faultAt = "classify"
    /\ attempt[Caller].rawExc = "WebDriverException"
    /\ attempt[Caller].pc = "done"

\* C7: in an attempt the classifier runs only after the settle delay, the
\* settle delay only after the click on submit, parsing only after the
\* classifier has answered "clean"; parsing does not run in an attempt whose
\* classifier answered "error".
C7_SettleClassifyExtract ==
    LET a == attempt[Caller]
        before(x, y) ==
            \A i \in 1..Len(a.events) :
                a.events[i] = y => \E j \in 1..(i - 1) : a.events[j] = x
    IN  /\ before("click", "sleep")
        /\ before("sleep", "classify")
        /\ before("classify", "parse")
        /\ "parse" \in Range(a.events) => a.errorFound = "clean"
        /\ a.errorFound = "error" => "parse" \notin Range(a.events)
        /\ a.errorFound = "none" => "parse" \notin Range(a.events)

C7_Witness ==
    /\ attempt[Caller].errorFound = "error"
    /\ attempt[Caller].rawExc = "none"
    /\ attempt[Caller].pc = "done"
    /\ Count(attempt[Caller].events, "sleep") = 1

\* C8: an attempt in which navigation, the wait for the form, a required
\* control or the submit fails ends in Failure, and no driver call of the
\* attempt is issued twice.
RequiredSteps ==
    {"get", "wait", "case_type", "case_number", "year", "find_submit", "click"}

C8_FaultIsFailureWithoutRetry ==
    LET a == attempt[Caller]
    IN  /\ a.faultAt \in RequiredSteps =>
              /\ a.pc = "done"
              /\ Len(a.outcomes) = 1
              /\ OutcomeOf(a.outcomes[1]) = "Failure"
        /\ \A ev \in Range(a.events) : Count(a.events, ev) = 1

C8_Witness ==
    /\ attempt[Caller].faultAt = "click"
    /\ attempt[Caller].rawExc = "TimeoutException"
    /\ attempt[Caller].pc = "done"

\* C10: however often __del__ is invoked, it never raises to its caller and
\* the driver is asked to quit at most once.
C10_ReleaseIdempotent ==
    /\ ~delRaised
    /\ quitCalls <= 1

(***************************************************************************)
(* The Result Classifier as a function of the page text.                   *)
(***************************************************************************)
\* _check_for_errors applied to a page source that was retrieved
Classify ==
    /\ classified = "none"
    /\ classified' = IF check_for_errors(page) THEN "error" ELSE "clean"
    /\ UNCHANGED <<lifecycle, form, attempt, attempts, page, href, resolved, doc, scan,
                   appVars>>

InitClassify ==
    /\ InitConstructed
    /\ InitIdle
    /\ page \in Pages
    /\ classified = "none"
    /\ NoHref
    /\ NoDoc

NextClassify == Classify

SpecClassify == InitClassify /\ [][NextClassify]_vars

\* the five phrases of the specification
NegativePhrases ==
    { <<"n","o"," ","r","e","c","o","r","d"," ","f","o","u","n","d">>,
      <<"i","n","v","a","l","i","d"," ","c","a","s","e"," ","n","u","m","b","e","r">>,
      <<"c","a","p","t","c","h","a"," ","m","i","s","m","a","t","c","h">>,
      <<"e","r","r","o","r"," ","o","c","c","u","r","r","e","d">>,
      <<"t","r","y"," ","a","g","a","i","n">> }

\* c is the lower-case letter l or its capital, or the same non-letter
SameLetter(c, l) ==
    \/ c = l
    \/ \E i \in 1..Len(LowerChars) : LowerChars[i] = l /\ UpperChars[i] = c

\* the text holds the phrase at offset i, in any letter case
OccursAt(text, phrase, i) ==
    /\ i + Len(phrase) <= Len(text)
    /\ \A k \in 1..Len(phrase) : SameLetter(text[i + k], phrase[k])

OccursInAnyCase(text, phrase) == \E i \in 0..Len(text) : OccursAt(text, phrase, i)

\* C5: the classifier answers "error" for every page that holds one of the
\* five phrases in any letter case, and "clean" for every page that holds none.
C5_ClassifierPhrases ==
    classified # "none" =>
        ((classified = "error") <=> \E ph \in NegativePhrases : OccursInAnyCase(page, ph))

C5_Witness ==
    /\ classified = "error"
    /\ page = <<"T","r","y">> \o <<" ","A","G","A","I","N">>

(***************************************************************************)
(* The front end: the /search route (app.py:40-111) served by NumThreads   *)
(* threads that share the module-level scraper (app.py:30) and the         *)
(* database (database.py).                                                 *)
(***************************************************************************)

\* form data a client can post
RawCaseTypes == { <<>>, <<"W",".","P",".","(","C",")">> }
RawCaseNumbers == { <<" ">>, <<" ","1","2","3","4","5">> }
RawYears == { <<"2","0","2","4">> }
RawCodes == { <<>>, <<"A","B","1","2">> }
RawForms ==
    [case_type : RawCaseTypes, case_number : RawCaseNumbers,
     year : RawYears, captcha_code : RawCodes]

\* what a database call can answer
DbResults == {"ok", "sqlite3.Error"}

\* app.py:106-111, the outer `except Exception`
Unexpected(r) == [r EXCEPT !.pc = "responded", !.response = "unexpected error"]

\* app.py:44-55: read the form, strip, validate; `limit` bounds the requests
\* a client sends
route_accept(t, limit) ==
    /\ req[t].pc \in {"none", "responded"}
    /\ req[t].served < limit
    /\ \E d \in RawForms :
         LET data == [case_type |-> Strip(d.case_type),
                      case_number |-> Strip(d.case_number),
                      year |-> Strip(d.year),
                      captcha_code |-> Strip(d.captcha_code)]
         IN  req' = [req EXCEPT ![t] =
                IF data.case_type = <<>> \/ data.case_number = <<>> \/ data.year = <<>>
                THEN [IdleRequest EXCEPT !.pc = "responded", !.raw = d, !.data = data,
                                         !.served = req[t].served + 1,
                                         !.response = "All fields are required"]
                ELSE [IdleRequest EXCEPT !.pc = "log", !.raw = d, !.data = data,
                                         !.served = req[t].served + 1]]
    /\ UNCHANGED <<lifecycle, form, attempt, attempts, pureVars, searches, cases, orders, saves,
                   lookup, txn>>

route_validate(t) == route_accept(t, MaxRequests)

\* app.py:58 with log_search (database.py:95-116)
route_log_search(t) ==
    /\ req[t].pc = "log"
    /\ \E r \in DbResults :
         IF r = "ok"
         THEN /\ searches' = Append(searches,
                    [case_type |-> req[t].data.case_type,
                     case_number |-> req[t].data.case_number,
                     year |-> req[t].data.year,
                     success |-> FALSE, error_message |-> "NULL"])
              /\ req' = [req EXCEPT ![t] =
                            [@ EXCEPT !.pc = "call", !.search_id = Len(searches) + 1]]
         ELSE /\ searches' = searches
              /\ req' = [req EXCEPT ![t] = Unexpected(@)]
    /\ UNCHANGED <<lifecycle, form, attempt, attempts, pureVars, cases, orders, saves, lookup,
                   txn>>

\* app.py:64-69: scraper.search_case(...) is entered on the shared scraper
route_call_search(t) ==
    /\ req[t].pc = "call"
    /\ search_case_begin(t,
          [case_type |-> req[t].data.case_type,
           case_number |-> req[t].data.case_number,
           year |-> req[t].data.year],
          req[t].data.captcha_code)
    /\ req' = [req EXCEPT ![t].pc = "search"]
    /\ UNCHANGED <<lifecycle, form, pureVars, searches, cases, orders, saves, lookup,
                   txn>>

\* the route going on to mark the search without having saved the record
route_save_case_skipped(t) ==
    /\ req[t].pc = "search"
    /\ attempt[t].pc = "done"
    /\ attempt[t].outcomes[1] = "return"
    /\ req' = [req EXCEPT ![t].pc = "mark"]
    /\ UNCHANGED <<lifecycle, form, attempt, attempts, pureVars, searches, cases, orders, saves,
                   lookup, txn>>

\* app.py:72 with save_case_data (database.py:160-208), after search_case returned
route_save_case(t) ==
    /\ req[t].pc = "search"
    /\ attempt[t].pc = "done"
    /\ attempt[t].outcomes[1] = "return"
    /\ \E r \in DbResults :
         IF r = "ok"
         THEN /\ SaveCommitted(req[t].search_id, EmptyRecord)
              /\ req' = [req EXCEPT ![t].pc = "mark"]
         ELSE /\ UNCHANGED <<cases, orders, saves>>
              /\ req' = [req EXCEPT ![t] = Unexpected(@)]
    /\ UNCHANGED <<lifecycle, form, attempt, attempts, pureVars, searches, lookup,
                   txn>>

\* app.py:75-80 with update_search_success (database.py:118-137)
route_mark_success(t) ==
    /\ req[t].pc = "mark"
    /\ \E r \in DbResults :
         IF r = "ok"
         THEN /\ searches' = [searches EXCEPT ![req[t].search_id].success = TRUE]
              /\ req' = [req EXCEPT ![t] =
                            [@ EXCEPT !.pc = "responded", !.response = "redirect"]]
         ELSE /\ searches' = searches
              /\ req' = [req EXCEPT ![t] = Unexpected(@)]
    /\ UNCHANGED <<lifecycle, form, attempt, attempts, pureVars, cases, orders, saves, lookup,
                   txn>>

\* app.py:82-104 with update_search_error (database.py:139-158), after
\* search_case raised
route_search_raised(t) ==
    /\ req[t].pc = "search"
    /\ attempt[t].pc = "done"
    /\ attempt[t].outcomes[1] # "return"
    /\ \E r \in DbResults :
         IF r = "ok"
         THEN /\ searches' = [searches EXCEPT ![req[t].search_id] =
                    [@ EXCEPT !.success = FALSE, !.error_message = attempt[t].outcomes[1]]]
              /\ req' = [req EXCEPT ![t] =
                    [@ EXCEPT !.pc = "responded",
                              !.response =
                                  IF attempt[t].outcomes[1] = "CaptchaRequiredException"
                                  THEN "CAPTCHA verification required"
                                  ELSE "Error fetching case data"]]
         ELSE /\ searches' = searches
              /\ req' = [req EXCEPT ![t] = Unexpected(@)]
    /\ UNCHANGED <<lifecycle, form, attempt, attempts, pureVars, cases, orders, saves, lookup,
                   txn>>

NextApp ==
    \E t \in Threads :
        \/ route_validate(t)
        \/ route_log_search(t)
        \/ route_call_search(t)
        \/ search_case_step(t)
        \/ route_save_case(t)
        \/ route_mark_success(t)
        \/ route_search_raised(t)

SpecApp == Init /\ [][NextApp]_vars

\* C9: no thread issues driver calls on the shared session while the
\* search_case call of another thread is in flight.
C9_OneAttemptInFlight ==
    \A t, u \in Threads :
        t # u => ~(InFlight(t) /\ attempt[t].events # <<>> /\ InFlight(u))

(***************************************************************************)
(* The life of a scraper instance: __init__ with setup_driver, search_case *)
(* calls, and __del__ when the instance is discarded.                      *)
(***************************************************************************)
\* where setup_driver can end (scraper.py:38-64)
SetupResults == {"ok", "Chrome raised", "set_page_load_timeout raised"}

\* DelhiHighCourtScraper.__init__ (scraper.py:32-34) with setup_driver (36-64)
Construct ==
    /\ ctor = "new"
    /\ \E r \in SetupResults :
         /\ ctor' = IF r = "ok" THEN "ok" ELSE "failed"    \* line 64 raises
         /\ IF r = "Chrome raised"
            THEN UNCHANGED <<driverRef, session, created>>  \* self.driver stays None
            ELSE /\ driverRef' = TRUE                        \* line 57
                 /\ session' = "live"
                 /\ created' = created + 1
    /\ UNCHANGED <<quitCalls, delCalls, delRaised, form, attempt, attempts,
                   pureVars, appVars>>

\* the caller holds an instance only if __init__ returned
CallerStartsSearch == ctor = "ok" /\ StartSearch

\* an instance that exists is discarded; __del__ may also be called by hand
Discard == ctor # "new" /\ Del

InitLife ==
    /\ driverRef = FALSE
    /\ session = "none"
    /\ ctor = "new"
    /\ created = 0
    /\ InitIdle
    /\ NoPage
    /\ NoHref
    /\ NoDoc

NextLife ==
    \/ Construct
    \/ CallerStartsSearch
    \/ search_case_step(Caller)
    \/ Discard

SpecLife == InitLife /\ [][NextLife]_vars

StartsWith(s, prefix) ==
    Len(s) >= Len(prefix) /\ SubSeq(s, 1, Len(prefix)) = prefix

\* the site origin written into scraper.py:396 and 398
Origin == <<"h","t","t","p","s",":","/","/","d","e","l","h","i","h","i","g","h","c","o","u","r","t",".","n","i","c",".","i","n">>

\* scraper.py:393: the anchor is taken for a document link
IsDocumentLink(h) ==
    \/ Contains(Lower(h), <<".","p","d","f">>)
    \/ Contains(Lower(h), <<"d","o","w","n","l","o","a","d">>)

\* scraper.py:395-400
resolve_pdf_url(h) ==
    IF StartsWith(h, <<"/">>) THEN Origin \o h
    ELSE IF ~StartsWith(h, <<"h","t","t","p">>) THEN Origin \o <<"/">> \o h
    ELSE h

\* anchor references: a prefix followed by a path
HrefPrefixes ==
    { <<>>,
      <<"/">>,
      <<"/","/","h","o","s","t","/">>,
      <<"h","t","t","p","s",":","/","/","h","o","s","t","/">>,
      <<"h","t","t","p",":","/","/","h","o","s","t","/">>,
      <<"f","t","p",":","/","/","h","o","s","t","/">>,
      <<"H","T","T","P","S",":","/","/","H","O","S","T","/">>,
      <<"h","t","t","p","d","o","c","s","/">>,
      <<".",".","/">> }
HrefPaths ==
    { <<"x",".","p","d","f">>,
      <<"d","o","w","n","l","o","a","d",".","p","d","f">>,
      <<"o","r","d","e","r","s","/","1",".","p","d","f">>,
      <<"d","o","w","n","l","o","a","d">>,
      <<"X",".","P","D","F">>,
      <<"D","o","w","n","l","o","a","d","?","i","d","=","1">>,
      <<"p","a","g","e",".","h","t","m","l">> }
Hrefs == { p \o b : p \in HrefPrefixes, b \in HrefPaths }

\* scraper.py:392-401 for one anchor of a row
ResolveHref ==
    /\ resolved.pc = "none"
    /\ resolved' = IF IsDocumentLink(href)
                   THEN [pc |-> "resolved", pdf_url |-> resolve_pdf_url(href)]
                   ELSE [pc |-> "skipped", pdf_url |-> None]
    /\ UNCHANGED <<lifecycle, form, attempt, attempts, page, classified, href, doc, scan,
                   appVars>>

InitUrl ==
    /\ InitConstructed
    /\ InitIdle
    /\ NoPage
    /\ href \in Hrefs
    /\ resolved = [pc |-> "none", pdf_url |-> None]
    /\ NoDoc

NextUrl == ResolveHref

SpecUrl == InitUrl /\ [][NextUrl]_vars

Letters == Range(UpperChars) \cup Range(LowerChars)
SchemeChars == Letters \cup {"0","1","2","3","4","5","6","7","8","9","+","-","."}

\* the reference begins with a URI scheme: a letter, then letters, digits,
\* "+", "-" or ".", then ":"
HasScheme(h) ==
    \E i \in 2..Len(h) :
        /\ h[i] = ":"
        /\ h[1] \in Letters
        /\ \A j \in 1..(i - 1) : h[j] \in SchemeChars

\* C12: a resolved reference that starts with "/" is origin + reference; one
\* with no scheme that does not start with "/" is origin + "/" + reference;
\* one that has a scheme, whichever, is unchanged.
C12_UrlResolution ==
    resolved.pc = "resolved" =>
        /\ StartsWith(href, <<"/">>) => resolved.pdf_url = Origin \o href
        /\ (~HasScheme(href) /\ ~StartsWith(href, <<"/">>)) =>
              resolved.pdf_url = Origin \o <<"/">> \o href
        /\ HasScheme(href) => resolved.pdf_url = href

(***************************************************************************)
(* The rendered document, as BeautifulSoup presents it (scraper.py:184).   *)
(* A document is a sequence of nodes in document order; a node is an       *)
(* element with text or a table; a table is a sequence of rows; a row is   *)
(* a sequence of cells.                                                    *)
(***************************************************************************)
Element(tag, class, id, text) ==
    [tag |-> tag, class |-> class, id |-> id, text |-> text, rows |-> <<>>]
Table(rows) ==
    [tag |-> "table", class |-> "", id |-> "", text |-> <<>>, rows |-> rows]
Cell(tag, text) == [tag |-> tag, text |-> text, hrefs |-> <<>>]
\* a cell holding anchors: `hrefs` are the href attributes, in document order
LinkCell(tag, text, hrefs) == [tag |-> tag, text |-> text, hrefs |-> hrefs]
Row2(label, value) == << Cell("td", label), Cell("td", value) >>

RECURSIVE Flatten(_)
\* concatenation of a sequence of sequences
Flatten(ss) == IF ss = <<>> THEN <<>> ELSE Head(ss) \o Flatten(Tail(ss))

\* soup.find_all('table'), in document order
find_all_tables(d) == SelectSeq(d, LAMBDA n : n.tag = "table")

\* `for table in tables: for row in table.find_all('tr')`: the rows visited
RowsVisited(d) == Flatten([i \in 1..Len(find_all_tables(d)) |-> find_all_tables(d)[i].rows])

\* the elements a selector can match, in document order
ElementsOf(d) ==
    Flatten([i \in 1..Len(d) |->
        IF d[i].tag = "table"
        THEN Flatten([r \in 1..Len(d[i].rows) |->
                [c \in 1..Len(d[i].rows[r]) |->
                    Element(d[i].rows[r][c].tag, "", "", d[i].rows[r][c].text)]])
        ELSE << d[i] >>])

(***************************************************************************)
(* _extract_case_title (scraper.py:223-243).                               *)
(***************************************************************************)
\* scraper.py:227-230
title_selectors ==
    << [kind |-> "tag", arg |-> "h2", text |-> <<>>],
       [kind |-> "tag", arg |-> "h3", text |-> <<>>],
       [kind |-> "class", arg |-> "case-title", text |-> <<>>],
       [kind |-> "id", arg |-> "case-title", text |-> <<>>],
       [kind |-> "td:contains", arg |-> "td", text |-> <<"C","a","s","e"," ","T","i","t","l","e">>],
       [kind |-> "td:contains", arg |-> "td", text |-> <<"T","i","t","l","e">>] >>

\* the element is matched by the CSS selector
SelectorMatches(sel, e) ==
    CASE sel.kind = "tag" -> e.tag = sel.arg
      [] sel.kind = "class" -> e.class = sel.arg
      [] sel.kind = "id" -> e.id = sel.arg
      [] sel.kind = "td:contains" -> e.tag = "td" /\ Contains(e.text, sel.text)

\* soup.select_one(selector): the first match in document order, or None
\* (0 stands for None, otherwise the index into ElementsOf)
select_one(d, sel) ==
    LET es == ElementsOf(d)
        hits == { i \in 1..Len(es) : SelectorMatches(sel, es[i]) }
    IN  IF hits = {} THEN 0 ELSE CHOOSE i \in hits : \A j \in hits : i <= j

\* the length test admitting a text of exactly 10 characters
ReasonableTitleLengthFromTen(text) == Len(text) >= 10

\* scraper.py:236 `len(text) > 10`
ReasonableTitleLength(text) == Len(text) > 10

RECURSIVE TitleFrom(_, _)
\* the loop of scraper.py:232-239, from selector number i on
TitleFrom(d, i) ==
    IF i > Len(title_selectors) THEN None
    ELSE LET k == select_one(d, title_selectors[i])
             text == IF k = 0 THEN <<>> ELSE Strip(ElementsOf(d)[k].text)
         IN  IF k # 0 /\ text # <<>> /\ ReasonableTitleLength(text)
             THEN text
             ELSE TitleFrom(d, i + 1)

extract_case_title(d) == TitleFrom(d, 1)

(***************************************************************************)
(* The date pattern r'\b\d{1,2}[-/]\d{1,2}[-/]\d{2,4}\b' and re.search     *)
(* (scraper.py:278, 290, 295).                                             *)
(***************************************************************************)
Digits == {"0","1","2","3","4","5","6","7","8","9"}
WordChars == Range(UpperChars) \cup Range(LowerChars) \cup Digits \cup {"_"}
DateSeparators == {"-", "/"}

\* \b between position i and position i + 1 of s
WordBoundary(s, i) ==
    (i >= 1 /\ s[i] \in WordChars) # (i < Len(s) /\ s[i + 1] \in WordChars)

AllDigits(s, from, n) == \A k \in from..(from + n - 1) : s[k] \in Digits

\* the pattern matches at `start` with n1, n2 and n3 digits in its three groups
DateMatches(s, start, n1, n2, n3) ==
    LET sep1 == start + n1
        sep2 == sep1 + 1 + n2
        last == sep2 + n3
    IN  /\ last <= Len(s)
        /\ WordBoundary(s, start - 1)
        /\ AllDigits(s, start, n1)
        /\ s[sep1] \in DateSeparators
        /\ AllDigits(s, sep1 + 1, n2)
        /\ s[sep2] \in DateSeparators
        /\ AllDigits(s, sep2 + 1, n3)
        /\ WordBoundary(s, last)

\* the repetition counts in the order a greedy, backtracking matcher tries them
DateRepetitions ==
    << <<2,2,4>>, <<2,2,3>>, <<2,2,2>>, <<2,1,4>>, <<2,1,3>>, <<2,1,2>>,
       <<1,2,4>>, <<1,2,3>>, <<1,2,2>>, <<1,1,4>>, <<1,1,3>>, <<1,1,2>> >>

\* re.search(date_pattern, s): None, or match.group() of the leftmost match
date_search(s) ==
    LET hit(i, k) == DateMatches(s, i, DateRepetitions[k][1], DateRepetitions[k][2],
                                 DateRepetitions[k][3])
        starts == { i \in 1..Len(s) : \E k \in 1..Len(DateRepetitions) : hit(i, k) }
    IN  IF starts = {} THEN None
        ELSE LET i == CHOOSE x \in starts : \A y \in starts : x <= y
                 ks == { k \in 1..Len(DateRepetitions) : hit(i, k) }
                 k == CHOOSE x \in ks : \A y \in ks : x <= y
                 n == DateRepetitions[k][1] + DateRepetitions[k][2] + DateRepetitions[k][3] + 2
             IN  SubSeq(s, i, i + n - 1)

(***************************************************************************)
(* The keyword extractors (scraper.py:245-353), one table row at a time.   *)
(***************************************************************************)
\* cells[0].get_text().strip().lower() and cells[1].get_text().strip()
RowHeader(row) == Lower(Strip(row[1].text))
RowValue(row) == Strip(row[2].text)

NoParties == [petitioner |-> None, respondent |-> None]
NoDates == [filing_date |-> None, next_hearing_date |-> None]

\* the loop body of _extract_parties (scraper.py:256-264)
PartiesRow(parties, row) ==
    IF Len(row) >= 2
    THEN IF Contains(RowHeader(row), <<"p","e","t","i","t","i","o","n","e","r">>) /\ RowValue(row) # <<>>
         THEN [parties EXCEPT !.petitioner = RowValue(row)]
         ELSE IF Contains(RowHeader(row), <<"r","e","s","p","o","n","d","e","n","t">>) /\ RowValue(row) # <<>>
         THEN [parties EXCEPT !.respondent = RowValue(row)]
         ELSE parties
    ELSE parties

\* scraper.py:289 and 294
IsFilingHeader(h) == Contains(h, <<"f","i","l","i","n","g">>) \/ Contains(h, <<"r","e","g","i","s","t","r","a","t","i","o","n">>)
IsHearingHeader(h) == Contains(h, <<"n","e","x","t">>) \/ Contains(h, <<"h","e","a","r","i","n","g">>)

\* the loop body with the two label rules applied independently of each other
DatesRowBothRules(dates, row) ==
    IF Len(row) >= 2
    THEN LET d1 == IF IsFilingHeader(RowHeader(row)) /\ date_search(RowValue(row)) # None
                   THEN [dates EXCEPT !.filing_date = date_search(RowValue(row))]
                   ELSE dates
         IN  IF IsHearingHeader(RowHeader(row)) /\ date_search(RowValue(row)) # None
             THEN [d1 EXCEPT !.next_hearing_date = date_search(RowValue(row))]
             ELSE d1
    ELSE dates

\* the loop body of _extract_dates (scraper.py:284-297)
DatesRow(dates, row) ==
    IF Len(row) >= 2
    THEN IF IsFilingHeader(RowHeader(row))
         THEN IF date_search(RowValue(row)) # None
              THEN [dates EXCEPT !.filing_date = date_search(RowValue(row))]
              ELSE dates
         ELSE IF IsHearingHeader(RowHeader(row))
         THEN IF date_search(RowValue(row)) # None
              THEN [dates EXCEPT !.next_hearing_date = date_search(RowValue(row))]
              ELSE dates
         ELSE dates
    ELSE dates

\* scraper.py:309 and 334
status_keywords == << <<"s","t","a","t","u","s">>, <<"s","t","a","g","e">>, <<"c","u","r","r","e","n","t">> >>
bench_keywords ==
    << <<"b","e","n","c","h">>,
       <<"j","u","d","g","e">>,
       <<"c","o","r","a","m">>,
       <<"b","e","f","o","r","e">> >>

\* the loop body returning on the label alone, whatever the value
KeywordRowReturnsAnyValue(keywords, row) ==
    /\ Len(row) >= 2
    /\ \E k \in 1..Len(keywords) : Contains(RowHeader(row), keywords[k])

\* the loop body of _extract_case_status and _extract_bench_info
\* (scraper.py:315-322, 340-347): the row makes the extractor return
KeywordRowReturns(keywords, row) ==
    /\ Len(row) >= 2
    /\ \E k \in 1..Len(keywords) : Contains(RowHeader(row), keywords[k]) /\ RowValue(row) # <<>>

(***************************************************************************)
(* _parse_case_results (scraper.py:197-212) over one document: the title,  *)
(* then the four keyword extractors, each a loop over the rows of the      *)
(* tables; `scan` is the position in that run and the values found so far. *)
(***************************************************************************)
StartScan ==
    [pc |-> "title", cursor |-> 1, title |-> None, parties |-> NoParties, dates |-> NoDates,
     status |-> None, bench |-> None, orders |-> <<>>, faulted |-> {}]

\* scraper.py:198
extract_title ==
    /\ scan.pc = "title"
    /\ scan' = [scan EXCEPT !.pc = "parties", !.title = extract_case_title(doc)]
    /\ UNCHANGED <<lifecycle, form, attempt, attempts, page, classified, href, resolved, doc,
                   appVars>>

\* one iteration of the loop of scraper.py:253-264
parties_row ==
    /\ scan.pc = "parties"
    /\ scan.cursor <= Len(RowsVisited(doc))
    /\ scan' = [scan EXCEPT !.parties = PartiesRow(scan.parties, RowsVisited(doc)[scan.cursor]),
                            !.cursor = scan.cursor + 1]
    /\ UNCHANGED <<lifecycle, form, attempt, attempts, page, classified, href, resolved, doc,
                   appVars>>

\* scraper.py:266
parties_return ==
    /\ scan.pc = "parties"
    /\ scan.cursor > Len(RowsVisited(doc))
    /\ scan' = [scan EXCEPT !.pc = "dates", !.cursor = 1]
    /\ UNCHANGED <<lifecycle, form, attempt, attempts, page, classified, href, resolved, doc,
                   appVars>>

\* one iteration of the loop of scraper.py:281-297
dates_row ==
    /\ scan.pc = "dates"
    /\ scan.cursor <= Len(RowsVisited(doc))
    /\ scan' = [scan EXCEPT !.dates = DatesRow(scan.dates, RowsVisited(doc)[scan.cursor]),
                            !.cursor = scan.cursor + 1]
    /\ UNCHANGED <<lifecycle, form, attempt, attempts, page, classified, href, resolved, doc,
                   appVars>>

\* scraper.py:299
dates_return ==
    /\ scan.pc = "dates"
    /\ scan.cursor > Len(RowsVisited(doc))
    /\ scan' = [scan EXCEPT !.pc = "status", !.cursor = 1]
    /\ UNCHANGED <<lifecycle, form, attempt, attempts, page, classified, href, resolved, doc,
                   appVars>>

\* one iteration of the loop of scraper.py:312-322
status_row ==
    /\ scan.pc = "status"
    /\ scan.cursor <= Len(RowsVisited(doc))
    /\ scan' = IF KeywordRowReturns(status_keywords, RowsVisited(doc)[scan.cursor])
               THEN [scan EXCEPT !.pc = "bench", !.cursor = 1,
                                 !.status = RowValue(RowsVisited(doc)[scan.cursor])]
               ELSE [scan EXCEPT !.cursor = scan.cursor + 1]
    /\ UNCHANGED <<lifecycle, form, attempt, attempts, page, classified, href, resolved, doc,
                   appVars>>

\* scraper.py:324
status_none ==
    /\ scan.pc = "status"
    /\ scan.cursor > Len(RowsVisited(doc))
    /\ scan' = [scan EXCEPT !.pc = "bench", !.cursor = 1]
    /\ UNCHANGED <<lifecycle, form, attempt, attempts, page, classified, href, resolved, doc,
                   appVars>>

\* one iteration of the loop of scraper.py:337-347
bench_row ==
    /\ scan.pc = "bench"
    /\ scan.cursor <= Len(RowsVisited(doc))
    /\ scan' = IF KeywordRowReturns(bench_keywords, RowsVisited(doc)[scan.cursor])
               THEN [scan EXCEPT !.pc = "orders", !.cursor = 1,
                                 !.bench = RowValue(RowsVisited(doc)[scan.cursor])]
               ELSE [scan EXCEPT !.cursor = scan.cursor + 1]
    /\ UNCHANGED <<lifecycle, form, attempt, attempts, page, classified, href, resolved, doc,
                   appVars>>

\* scraper.py:349
bench_none ==
    /\ scan.pc = "bench"
    /\ scan.cursor > Len(RowsVisited(doc))
    /\ scan' = [scan EXCEPT !.pc = "orders", !.cursor = 1]
    /\ UNCHANGED <<lifecycle, form, attempt, attempts, page, classified, href, resolved, doc,
                   appVars>>

(***************************************************************************)
(* _extract_orders (scraper.py:355-413), one table at a time.              *)
(***************************************************************************)
\* row.find_all('td') (scraper.py:372)
find_all_td(row) == SelectSeq(row, LAMBDA c : c.tag = "td")

\* table.find_all('th') (scraper.py:365)
find_all_th(table) ==
    Flatten([r \in 1..Len(table.rows) |-> SelectSeq(table.rows[r], LAMBDA c : c.tag = "th")])

\* row.find_all('a', href=True) (scraper.py:390): the references, in order
find_all_a(row) == Flatten([c \in 1..Len(row) |-> row[c].hrefs])

RECURSIVE Join(_)
\* ' '.join(texts)
Join(texts) ==
    IF texts = <<>> THEN <<>>
    ELSE IF Len(texts) = 1 THEN texts[1]
    ELSE texts[1] \o << " " >> \o Join(Tail(texts))

\* scraper.py:366
header_text(table) ==
    Join([i \in 1..Len(find_all_th(table)) |-> Lower(Strip(find_all_th(table)[i].text))])

\* scraper.py:368
orders_keywords == << <<"o","r","d","e","r">>, <<"d","a","t","e">>, <<"l","i","n","k">> >>
LooksLikeOrdersTable(table) ==
    \E k \in 1..Len(orders_keywords) : Contains(header_text(table), orders_keywords[k])

RECURSIVE FirstCellDate(_)
\* scraper.py:382-387: the first cell with a date gives it
FirstCellDate(cells) ==
    IF cells = <<>> THEN None
    ELSE IF date_search(Head(cells).text) # None THEN date_search(Head(cells).text)
    ELSE FirstCellDate(Tail(cells))

RECURSIVE FirstDocumentUrl(_)
\* scraper.py:390-401: the first anchor taken for a document link gives the URL
FirstDocumentUrl(hrefs) ==
    IF hrefs = <<>> THEN None
    ELSE IF IsDocumentLink(Head(hrefs)) THEN resolve_pdf_url(Head(hrefs))
    ELSE FirstDocumentUrl(Tail(hrefs))

\* scraper.py:374-404
order_data(row) ==
    [date |-> FirstCellDate(find_all_td(row)),
     type |-> <<"O","r","d","e","r">>,
     pdf_url |-> FirstDocumentUrl(find_all_a(row)),
     text |-> Join([i \in 1..Len(find_all_td(row)) |-> Strip(find_all_td(row)[i].text)])]

\* the row is appended although neither a date nor a link was found
RowOrdersUnfiltered(row) ==
    IF Len(find_all_td(row)) >= 2 THEN << order_data(row) >> ELSE <<>>

\* scraper.py:373, 406-407: what the row appends to `orders`
RowOrders(row) ==
    IF Len(find_all_td(row)) >= 2
       /\ (Truthy(order_data(row).date) \/ Truthy(order_data(row).pdf_url))
    THEN << order_data(row) >>
    ELSE <<>>

\* the rows of the table from the last to the second
TableOrdersBottomUp(table) ==
    IF LooksLikeOrdersTable(table)
    THEN Flatten([i \in 1..(Len(table.rows) - 1) |->
                     RowOrders(table.rows[Len(table.rows) + 1 - i])])
    ELSE <<>>

\* scraper.py:363-407: what the table appends to `orders`
TableOrders(table) ==
    IF LooksLikeOrdersTable(table)
    THEN Flatten([i \in 1..(Len(table.rows) - 1) |-> RowOrders(table.rows[i + 1])])
    ELSE <<>>

\* one iteration of `for table in tables` (scraper.py:363)
orders_table ==
    /\ scan.pc = "orders"
    /\ scan.cursor <= Len(find_all_tables(doc))
    /\ scan' = [scan EXCEPT !.orders = @ \o TableOrders(find_all_tables(doc)[scan.cursor]),
                            !.cursor = scan.cursor + 1]
    /\ UNCHANGED <<lifecycle, form, attempt, attempts, page, classified, href, resolved, doc,
                   appVars>>

\* scraper.py:409, then `return case_data` (scraper.py:215-217)
orders_return ==
    /\ scan.pc = "orders"
    /\ scan.cursor > Len(find_all_tables(doc))
    /\ scan' = [scan EXCEPT !.pc = "done", !.cursor = 1]
    /\ UNCHANGED <<lifecycle, form, attempt, attempts, page, classified, href, resolved, doc,
                   appVars>>

(***************************************************************************)
(* The documents the extractors are run on.                                *)
(***************************************************************************)
RECURSIVE SeqsUpTo(_, _)
\* the sequences over S of length at most n
SeqsUpTo(S, n) ==
    IF n = 0 THEN { <<>> }
    ELSE SeqsUpTo(S, n - 1) \cup
         { Append(q, x) : q \in { r \in SeqsUpTo(S, n - 1) : Len(r) = n - 1 }, x \in S }

TitleNodes ==
    { Element("h2", "", "", <<"O","r","d","e","r","s">>),
      Element("h2", "", "", <<" ","R","a","m"," ","v","s"," ","S","t","a","t","e"," ">>),
      Element("h2", "", "", <<"A"," ","v"," ","B"," ","2","0","2","4">>),
      Element("h3", "", "", <<" "," ">>),
      Element("h3", "", "", <<"S","i","t","a"," ","v","s"," ","U","n","i","o","n">>),
      Element("div", "case-title", "", <<"X"," ","v"," ","Y">>),
      Element("span", "", "case-title", <<"S","t","a","t","e"," ","v","s"," ","M","o","h","a","n">>),
      Table(<< << Cell("td", <<"C","a","s","e"," ","T","i","t","l","e",":"," ","A"," ","v"," ","B">>) >> >>),
      Table(<< Row2(<<"T","i","t","l","e">>,
           <<"I","n"," ","r","e"," ","e","s","t","a","t","e">>) >>) }

PartyRows ==
    { Row2(<<"P","e","t","i","t","i","o","n","e","r">>,
           <<"R","a","m">>),
      Row2(<<"P","E","T","I","T","I","O","N","E","R"," ","N","A","M","E">>,
           <<" ","S","i","t","a"," ">>),
      Row2(<<"R","e","s","p","o","n","d","e","n","t">>,
           <<"S","t","a","t","e">>),
      Row2(<<"R","e","s","p","o","n","d","e","n","t"," ","N","o","."," ","2">>,
           <<"U","n","i","o","n">>),
      Row2(<<"P","e","t","i","t","i","o","n","e","r">>,
           <<>>),
      << Cell("td", <<"R","e","s","p","o","n","d","e","n","t">>) >> }

DateRows ==
    { Row2(<<"F","i","l","i","n","g"," ","D","a","t","e">>,
           <<"o","n"," ","0","1","-","0","2","-","2","0","2","3">>),
      Row2(<<"D","a","t","e"," ","o","f"," ","R","e","g","i","s","t","r","a","t","i","o","n">>,
           <<"3","/","4","/","2","4"," ","5","/","6","/","2","4">>),
      Row2(<<"N","e","x","t"," ","H","e","a","r","i","n","g">>,
           <<"1","0","-","1","1","-","2","0","2","4">>),
      Row2(<<"H","e","a","r","i","n","g"," ","D","a","t","e">>,
           <<"1","2","/","1","2","/","2","0","2","4">>),
      Row2(<<"N","e","x","t"," ","d","a","t","e"," ","o","f"," ","f","i","l","i","n","g">>,
           <<"0","7","/","0","8","/","2","0","2","5">>),
      Row2(<<"H","e","a","r","i","n","g">>,
           <<"s","o","o","n">>) }

StatusBenchRows ==
    { Row2(<<"S","t","a","t","u","s">>,
           <<>>),
      Row2(<<"S","t","a","g","e">>,
           <<"D","i","s","p","o","s","e","d">>),
      Row2(<<"C","u","r","r","e","n","t"," ","S","t","a","t","u","s">>,
           <<" ","P","e","n","d","i","n","g"," ">>),
      Row2(<<"C","o","r","a","m">>,
           <<"J","u","s","t","i","c","e"," ","A">>),
      Row2(<<"B","e","f","o","r","e">>,
           <<" ">>),
      << Cell("th", <<"B","e","n","c","h">>), Cell("td", <<"D","B","-","1">>) >>,
      << Cell("td", <<"J","u","d","g","e">>) >> }

RowLists == SeqsUpTo(PartyRows, MaxRows) \cup SeqsUpTo(DateRows, MaxRows)
            \cup SeqsUpTo(StatusBenchRows, MaxRows)

\* the rows in one table, or the first row in a table of its own
TableDocs ==
    { << Table(rs) >> : rs \in RowLists } \cup
    { << Table(<< Head(rs) >>), Table(Tail(rs)) >> : rs \in { r \in RowLists : Len(r) >= 2 } }

\* first rows of tables: header cells naming orders, other header cells, no
\* header cells
OrderHeaderRows ==
    { << Cell("th", <<" ","O","r","d","e","r"," ","D","a","t","e"," ">>),
         Cell("th", <<"L","i","n","k">>) >>,
      << Cell("th", <<"S",".","N","o">>),
         Cell("th", <<"N","a","m","e">>) >>,
      << Cell("td", <<"D","a","t","e">>),
         Cell("td", <<"D","e","t","a","i","l","s">>) >> }

\* rows below: with date and link, with one of them, with neither, with fewer
\* than two td cells, with a header cell naming a date
OrderDataRows ==
    { << Cell("td", <<"0","1","-","0","1","-","2","0","2","4">>),
         LinkCell("td", <<" ","V","i","e","w"," ">>,
              << <<"/","o","r","d","e","r","s","/","1",".","p","d","f">> >>) >>,
      << Cell("td", <<"O","r","d","e","r"," ","o","f"," ","1","5","-","0","3","-","2","0","2","3">>),
         LinkCell("td", <<"G","e","t">>,
              << <<"d","o","w","n","l","o","a","d",".","p","d","f">> >>) >>,
      << Cell("td", <<"N","o","t","i","c","e">>),
         Cell("td", <<"n","o"," ","d","a","t","e">>) >>,
      << Cell("th", <<"5">>),
         Cell("td", <<"0","2","-","0","2","-","2","0","2","4">>) >>,
      << Cell("td", <<"x">>),
         LinkCell("td", <<"D","o","c">>,
              << <<"p","a","g","e",".","h","t","m","l">>, <<"H","T","T","P",":","/","/","h","/","A",".","P","D","F">> >>) >>,
      << Cell("th", <<"U","p","l","o","a","d"," ","D","a","t","e">>),
         Cell("td", <<"a">>),
         Cell("td", <<"3","/","4","/","2","4"," ","5","/","6","/","2","4">>) >> }

OrderRowLists == SeqsUpTo(OrderDataRows, MaxRows)

\* one table, or the rows shared between two tables under the same first row
OrderDocs ==
    { << Table(<< h >> \o rs) >> : h \in OrderHeaderRows, rs \in OrderRowLists } \cup
    { << Table(<< h, Head(rs) >>), Table(<< h >> \o Tail(rs)) >> :
          h \in OrderHeaderRows, rs \in { r \in OrderRowLists : Len(r) >= 2 } }

TitleDocs == SeqsUpTo(TitleNodes, MaxNodes)

Docs == TitleDocs \cup TableDocs \cup OrderDocs

InitExtract ==
    /\ InitConstructed
    /\ InitIdle
    /\ NoPage
    /\ NoHref
    /\ doc \in Docs
    /\ scan = StartScan

NextExtract ==
    \/ extract_title
    \/ parties_row
    \/ parties_return
    \/ dates_row
    \/ dates_return
    \/ status_row
    \/ status_none
    \/ bench_row
    \/ bench_none
    \/ orders_table
    \/ orders_return

SpecExtract == InitExtract /\ [][NextExtract]_vars

(***************************************************************************)
(* Properties of the extractors.                                           *)
(***************************************************************************)
\* the trimmed text of the element a selector candidate contributes (its
\* first match in document order), empty when it matches nothing
CandidateText(d, k) ==
    LET es == ElementsOf(d)
        first(i) == /\ SelectorMatches(title_selectors[k], es[i])
                    /\ \A j \in 1..(i - 1) : ~SelectorMatches(title_selectors[k], es[j])
    IN  IF \E i \in 1..Len(es) : first(i)
        THEN Strip(es[CHOOSE i \in 1..Len(es) : first(i)].text)
        ELSE <<>>

LongCandidates(d) == { k \in 1..Len(title_selectors) : Len(CandidateText(d, k)) > 10 }

\* C20: the title is the trimmed text of the first selector candidate, in the
\* order of the list, whose matched element has a text longer than 10
\* characters; it is absent exactly when no candidate's matched element has
\* such a text; a title is never empty nor 10 characters or shorter.
C20_TitleIsFirstLongCandidate ==
    scan.pc \in {"parties", "dates", "status", "bench", "done"} =>
        /\ (scan.title = None) <=> (LongCandidates(doc) = {})
        /\ \A k \in LongCandidates(doc) :
              (\A j \in LongCandidates(doc) : k <= j) => scan.title = CandidateText(doc, k)
        /\ scan.title # None => (scan.title # <<>> /\ Len(scan.title) > 10)

\* a title taken from a later candidate after an earlier one matched a text
\* that is too short
C20_Witness ==
    /\ scan.pc = "done"
    /\ scan.title # None
    /\ \E k \in 1..Len(title_selectors) :
          /\ select_one(doc, title_selectors[k]) # 0
          /\ CandidateText(doc, k) # <<>>
          /\ k < CHOOSE m \in LongCandidates(doc) : \A j \in LongCandidates(doc) : m <= j

\* the lower-cased, trimmed label of a row and its trimmed value
LabelOf(row) == Lower(Strip(row[1].text))
ValueOf(row) == Strip(row[2].text)
LabelHas(row, word) == Len(row) >= 2 /\ Contains(LabelOf(row), word)
LabelHasAny(row, words) == \E k \in 1..Len(words) : LabelHas(row, words[k])

\* x is a date: 1-2 digits, a separator, 1-2 digits, a separator, 2-4 digits
IsDateText(x) ==
    \E a, b \in 1..Len(x) :
        /\ a < b
        /\ x[a] \in {"-", "/"} /\ x[b] \in {"-", "/"}
        /\ (a - 1) \in 1..2 /\ (b - a - 1) \in 1..2 /\ (Len(x) - b) \in 2..4
        /\ \A i \in (1..Len(x)) \ {a, b} : x[i] \in Digits

\* s[i..j] is a date standing as a word of its own
DateAt(s, i, j) ==
    /\ 1 <= i /\ i <= j /\ j <= Len(s)
    /\ IsDateText(SubSeq(s, i, j))
    /\ (i = 1 \/ s[i - 1] \notin WordChars)
    /\ (j = Len(s) \/ s[j + 1] \notin WordChars)

HasDate(s) == \E i, j \in 1..Len(s) : DateAt(s, i, j)

\* the date substring with the leftmost start
FirstDate(s) ==
    LET i == CHOOSE x \in 1..Len(s) :
                 /\ \E j \in 1..Len(s) : DateAt(s, x, j)
                 /\ \A y \in 1..(x - 1) : \A j \in 1..Len(s) : ~DateAt(s, y, j)
        j == CHOOSE y \in 1..Len(s) : DateAt(s, i, y)
    IN  SubSeq(s, i, j)

\* the rows that qualify for each field
QualifiesPetitioner(row) == LabelHas(row, <<"p","e","t","i","t","i","o","n","e","r">>) /\ ValueOf(row) # <<>>
QualifiesRespondent(row) ==
    /\ LabelHas(row, <<"r","e","s","p","o","n","d","e","n","t">>) /\ ValueOf(row) # <<>>
    /\ ~LabelHas(row, <<"p","e","t","i","t","i","o","n","e","r">>)
FilingLabel(row) == LabelHas(row, <<"f","i","l","i","n","g">>) \/ LabelHas(row, <<"r","e","g","i","s","t","r","a","t","i","o","n">>)
HearingLabel(row) == LabelHas(row, <<"n","e","x","t">>) \/ LabelHas(row, <<"h","e","a","r","i","n","g">>)
QualifiesFiling(row) == FilingLabel(row) /\ HasDate(ValueOf(row))
QualifiesHearing(row) == HearingLabel(row) /\ ~FilingLabel(row) /\ HasDate(ValueOf(row))

\* the first row, in document order, that satisfies Q (0 when none does)
FirstRow(rows, Q(_)) ==
    IF \E i \in 1..Len(rows) : Q(rows[i])
    THEN CHOOSE i \in 1..Len(rows) : Q(rows[i]) /\ \A j \in 1..(i - 1) : ~Q(rows[j])
    ELSE 0

\* C17: for petitioner, respondent, filing date and next hearing date, when
\* several rows qualify for the field, the value extracted is the one of the
\* first qualifying row in document order; no later row overwrites it.
C17_FirstMatchWins ==
    scan.pc = "done" =>
        LET rows == RowsVisited(doc)
            p == FirstRow(rows, QualifiesPetitioner)
            r == FirstRow(rows, QualifiesRespondent)
            f == FirstRow(rows, QualifiesFiling)
            h == FirstRow(rows, QualifiesHearing)
        IN  /\ p # 0 => scan.parties.petitioner = ValueOf(rows[p])
            /\ r # 0 => scan.parties.respondent = ValueOf(rows[r])
            /\ f # 0 => scan.dates.filing_date = FirstDate(ValueOf(rows[f]))
            /\ h # 0 => scan.dates.next_hearing_date = FirstDate(ValueOf(rows[h]))

\* the row the date loop has just taken
RowTaken == RowsVisited(doc)[scan.cursor]

\* C18 as stated: each of the two label rules applies to every row with at
\* least two cells, the second also when the label contains "filing" or
\* "registration" besides "next" or "hearing".
C18_BothRulesOnEveryRow ==
    [][dates_row =>
        /\ (FilingLabel(RowTaken) /\ HasDate(ValueOf(RowTaken))) =>
              scan'.dates.filing_date = FirstDate(ValueOf(RowTaken))
        /\ (HearingLabel(RowTaken) /\ HasDate(ValueOf(RowTaken))) =>
              scan'.dates.next_hearing_date = FirstDate(ValueOf(RowTaken))]_vars

\* C18 (amended): a row whose label contains "filing" or "registration" and
\* whose value contains a date sets the filing date to the first date of the
\* value; a row whose label contains "next" or "hearing" and neither "filing"
\* nor "registration", and whose value contains a date, sets the next hearing
\* date likewise; every other row leaves the field as it was.
C18_SecondRuleOnlyWithoutFirst ==
    [][dates_row =>
        /\ scan'.dates.filing_date =
              IF FilingLabel(RowTaken) /\ HasDate(ValueOf(RowTaken))
              THEN FirstDate(ValueOf(RowTaken))
              ELSE scan.dates.filing_date
        /\ scan'.dates.next_hearing_date =
              IF HearingLabel(RowTaken) /\ ~FilingLabel(RowTaken) /\ HasDate(ValueOf(RowTaken))
              THEN FirstDate(ValueOf(RowTaken))
              ELSE scan.dates.next_hearing_date]_vars

\* the date loop has taken a row whose label contains both "next" and
\* "filing": only the filing date was set
C18_Witness ==
    /\ scan.pc = "dates"
    /\ scan.cursor = 2
    /\ FilingLabel(RowsVisited(doc)[1]) /\ HearingLabel(RowsVisited(doc)[1])
    /\ HasDate(ValueOf(RowsVisited(doc)[1]))
    /\ scan.dates.filing_date = FirstDate(ValueOf(RowsVisited(doc)[1]))
    /\ scan.dates.next_hearing_date = None

StatusLabel(row) == LabelHasAny(row, << <<"s","t","a","t","u","s">>, <<"s","t","a","g","e">>, <<"c","u","r","r","e","n","t">> >>)
BenchLabel(row) ==
    LabelHasAny(row, << <<"b","e","n","c","h">>,
                        <<"j","u","d","g","e">>,
                        <<"c","o","r","a","m">>,
                        <<"b","e","f","o","r","e">> >>)
StatusRow(row) == StatusLabel(row) /\ ValueOf(row) # <<>>
BenchRow(row) == BenchLabel(row) /\ ValueOf(row) # <<>>

\* C19 as stated: the status is the trimmed value of the first row with at
\* least two cells whose label contains a status keyword, the bench
\* information that of the first row whose label contains a bench keyword.
C19_FirstLabelledRow ==
    scan.pc = "done" =>
        LET rows == RowsVisited(doc)
            s == FirstRow(rows, StatusLabel)
            b == FirstRow(rows, BenchLabel)
        IN  /\ s # 0 => scan.status = ValueOf(rows[s])
            /\ b # 0 => scan.bench = ValueOf(rows[b])

\* C19 (amended): the status is the trimmed value of the first row with at
\* least two cells whose label contains a status keyword and whose trimmed
\* value is not empty, and absent when there is no such row; likewise the
\* bench information; no later row determines the field.
C19_FirstLabelledRowWithValue ==
    scan.pc = "done" =>
        LET rows == RowsVisited(doc)
            s == FirstRow(rows, StatusRow)
            b == FirstRow(rows, BenchRow)
        IN  /\ scan.status = IF s # 0 THEN ValueOf(rows[s]) ELSE None
            /\ scan.bench = IF b # 0 THEN ValueOf(rows[b]) ELSE None

\* a labelled row without a value precedes the row the status is taken
\* from, and a further labelled row with a value follows it
C19_Witness ==
    /\ scan.pc = "done"
    /\ Len(RowsVisited(doc)) = 3
    /\ StatusLabel(RowsVisited(doc)[1]) /\ ~StatusRow(RowsVisited(doc)[1])
    /\ StatusRow(RowsVisited(doc)[2]) /\ StatusRow(RowsVisited(doc)[3])
    /\ ValueOf(RowsVisited(doc)[2]) # ValueOf(RowsVisited(doc)[3])
    /\ scan.status = ValueOf(RowsVisited(doc)[2])

(***************************************************************************)
(* Persistence on its own: log_search, save_case_data and                  *)
(* get_case_by_search_id (database.py:95-116, 160-259) called in any       *)
(* order, as test_scraper.py:36-68 calls them.                             *)
(***************************************************************************)
MaxSearches == 2      \* rows of table searches
MaxSaves == 2         \* save_case_data calls that commit

\* the bytes of the characters used, in ascending order (BINARY collation)
AsciiOrder ==
    << " ", "-", ".", "/", "0","1","2","3","4","5","6","7","8","9", ":" >>
        \o UpperChars \o LowerChars
Rank(c) == CHOOSE i \in 1..Len(AsciiOrder) : AsciiOrder[i] = c

RECURSIVE TextLess(_, _)
\* memcmp order of two texts
TextLess(a, b) ==
    IF b = <<>> THEN FALSE
    ELSE IF a = <<>> THEN TRUE
    ELSE IF Head(a) = Head(b) THEN TextLess(Tail(a), Tail(b))
    ELSE Rank(Head(a)) < Rank(Head(b))

\* a text SQLite reads as an integer literal: digits, blanks around them
IsIntegerLiteral(x) ==
    /\ x # None
    /\ Strip(x) # <<>>
    /\ \A i \in 1..Len(Strip(x)) : Strip(x)[i] \in Digits

RECURSIVE DropZeros(_)
DropZeros(x) == IF Len(x) > 1 /\ Head(x) = "0" THEN DropZeros(Tail(x)) ELSE x

\* the value an INTEGER comes back as (a Python int, not a str)
IntegerValue(x) == << "<int>" >> \o DropZeros(Strip(x))

\* a column declared DATE has NUMERIC affinity (database.py:45-46, 62):
\* a text that is a numeric literal is stored as a number
NumericAffinity(x) == IF IsIntegerLiteral(x) THEN IntegerValue(x) ELSE x

\* the stored form of a row of cases and of orders
StoredCase(row) ==
    [row EXCEPT !.filing_date = NumericAffinity(@),
                !.next_hearing_date = NumericAffinity(@)]
StoredOrder(row) == [row EXCEPT !.order_date = NumericAffinity(@)]

\* ORDER BY order_date DESC: a comes no later than b (NULL sorts lowest)
DescOrdered(a, b) ==
    \/ b.order_date = None
    \/ a.order_date # None /\ ~TextLess(a.order_date, b.order_date)

\* the orders of every case: the WHERE clause left out
OrdersOfAnyCase(case_id) == { i \in 1..Len(orders) : TRUE }

\* SELECT * FROM orders WHERE case_id = ? (database.py:243-245): the row ids
OrdersOfCase(case_id) == { i \in 1..Len(orders) : orders[i].case_id = case_id }

\* the result lists ORDER BY order_date DESC allows for these rows
OrderedFetch(ids) ==
    { q \in [1..Cardinality(ids) -> ids] :
        /\ \A i, j \in 1..Cardinality(ids) : i # j => q[i] # q[j]
        /\ \A i, j \in 1..Cardinality(ids) :
              i < j => DescOrdered(StoredOrder(orders[q[i]]), StoredOrder(orders[q[j]])) }

\* the records handed to save_case_data: what _parse_case_results builds
SampleRecords ==
    { EmptyRecord,
      [case_title |-> <<"A"," ","v"," ","B">>, petitioner |-> <<"A">>, respondent |-> <<"B">>,
       filing_date |-> <<"1","-","2","-","2","4">>,
       next_hearing_date |-> None, case_status |-> <<"O","p","e","n">>, bench_info |-> None,
       orders |-> << [date |-> <<"0","1","-","0","2","-","2","0","2","4">>, type |-> <<"O","r","d","e","r">>, pdf_url |-> <<"u","1">>,
          text |-> <<"x">>],
        [date |-> <<"0","3","-","0","2","-","2","0","2","4">>, type |-> <<"O","r","d","e","r">>, pdf_url |-> None,
          text |-> <<"y">>] >>],
      [case_title |-> None, petitioner |-> <<"C">>, respondent |-> None,
       filing_date |-> None,
       next_hearing_date |-> <<"5","/","6","/","2","0","2","5">>, case_status |-> None, bench_info |-> <<"D","B">>,
       orders |-> << [date |-> None, type |-> <<"O","r","d","e","r">>, pdf_url |-> <<"u","2">>,
          text |-> <<"z">>],
        [date |-> <<"0","3","-","0","2","-","2","0","2","4">>, type |-> <<"O","r","d","e","r">>, pdf_url |-> <<"u","1">>,
          text |-> <<"x">>] >>] }

LoggedQuery ==
    [case_type |-> <<"W",".","P",".","(","C",")">>, case_number |-> <<"1","2","3","4","5">>,
     year |-> <<"2","0","2","4">>]

\* database.py:95-116
log_search ==
    /\ Len(searches) < MaxSearches
    /\ \E r \in DbResults :
         searches' = IF r = "ok"
                     THEN Append(searches,
                            [case_type |-> LoggedQuery.case_type,
                             case_number |-> LoggedQuery.case_number,
                             year |-> LoggedQuery.year,
                             success |-> FALSE, error_message |-> "NULL"])
                     ELSE searches
    /\ UNCHANGED <<lifecycle, form, attempt, attempts, pureVars, req, cases, orders, saves,
                   lookup, txn>>

\* database.py:160-208, for the id of a logged search
save_case_data ==
    /\ Len(saves) < MaxSaves
    /\ \E search_id \in 1..Len(searches), case_data \in SampleRecords, r \in DbResults :
         IF r = "ok"
         THEN SaveCommitted(search_id, case_data)
         ELSE UNCHANGED <<cases, orders, saves>>   \* closed without commit
    /\ UNCHANGED <<lifecycle, form, attempt, attempts, pureVars, req, searches, lookup,
                   txn>>

\* database.py:210-259
get_case_by_search_id ==
    /\ \E search_id \in 1..MaxSearches, r \in DbResults :
         IF r # "ok"
         THEN lookup' = [NoLookup EXCEPT !.pc = "raised", !.search_id = search_id]
         ELSE IF search_id > Len(searches)
         THEN lookup' = [NoLookup EXCEPT !.pc = "None", !.search_id = search_id]
         ELSE LET found == { k \in 1..Len(cases) : cases[k].search_id = search_id }
              IN  IF found = {}
                  THEN lookup' = [NoLookup EXCEPT !.pc = "returned", !.search_id = search_id,
                                                  !.search = << searches[search_id] >>]
                  ELSE \E k \in found :       \* fetchone(): no ORDER BY in the query
                       \E q \in OrderedFetch(OrdersOfCase(k)) :
                          lookup' = [pc |-> "returned", search_id |-> search_id,
                                     search |-> << searches[search_id] >>,
                                     case |-> << StoredCase(cases[k]) >>,
                                     orders |-> [i \in 1..Len(q) |-> StoredOrder(orders[q[i]])]]
    /\ UNCHANGED <<lifecycle, form, attempt, attempts, pureVars, req, searches, cases, orders,
                   saves, txn>>

NextDb ==
    \/ log_search
    \/ save_case_data
    \/ get_case_by_search_id

SpecDb == Init /\ [][NextDb]_vars

\* ---------------------------------------------------------------------------
\* save_case_data statement by statement: the inserts of one call are made on
\* its own connection and reach the tables only when that connection commits
\* ---------------------------------------------------------------------------

\* the rows the open connection has inserted and not committed
PendingCases(t) ==
    IF t.case_inserted THEN << CaseRow(t.search_id, t.record) >> ELSE << >>

PendingOrders(t) ==
    [i \in 1..t.orders_inserted |-> OrderRow(Len(cases) + 1, t.record.orders[i])]

\* a connection that writes each insert through as it is executed
CloseKeepsInserts(t) == [cases |-> PendingCases(t), orders |-> PendingOrders(t)]

\* database.py:207-208: conn.close() with no commit discards the inserts
CloseWithoutCommit(t) == [cases |-> << >>, orders |-> << >>]

\* database.py:160-164, for the id of a logged search
save_connect ==
    /\ txn.pc # "open"
    /\ Len(saves) < MaxSaves
    /\ \E search_id \in 1..Len(searches), case_data \in SampleRecords :
         txn' = [NoTxn EXCEPT !.pc = "open", !.search_id = search_id, !.record = case_data]
    /\ UNCHANGED <<lifecycle, form, attempt, attempts, pureVars, req, searches, cases, orders,
                   saves, lookup>>

\* database.py:167-183
save_insert_case ==
    /\ txn.pc = "open"
    /\ ~txn.case_inserted
    /\ txn' = [txn EXCEPT !.case_inserted = TRUE]
    /\ UNCHANGED <<lifecycle, form, attempt, attempts, pureVars, req, searches, cases, orders,
                   saves, lookup>>

\* database.py:186-198, one pass of the loop
save_insert_order ==
    /\ txn.pc = "open"
    /\ txn.case_inserted
    /\ txn.orders_inserted < Len(txn.record.orders)
    /\ txn' = [txn EXCEPT !.orders_inserted = @ + 1]
    /\ UNCHANGED <<lifecycle, form, attempt, attempts, pureVars, req, searches, cases, orders,
                   saves, lookup>>

\* database.py:200-202 and 207-208
save_commit ==
    /\ txn.pc = "open"
    /\ txn.case_inserted
    /\ txn.orders_inserted = Len(txn.record.orders)
    /\ cases' = cases \o PendingCases(txn)
    /\ orders' = orders \o PendingOrders(txn)
    /\ saves' = Append(saves, [search_id |-> txn.search_id, record |-> txn.record])
    /\ txn' = [txn EXCEPT !.pc = "committed"]
    /\ UNCHANGED <<lifecycle, form, attempt, attempts, pureVars, req, searches, lookup>>

\* database.py:204-208: any statement of the call, the commit included, fails
save_raise ==
    /\ txn.pc = "open"
    /\ cases' = cases \o CloseWithoutCommit(txn).cases
    /\ orders' = orders \o CloseWithoutCommit(txn).orders
    /\ saves' = saves
    /\ txn' = [txn EXCEPT !.pc = "raised"]
    /\ UNCHANGED <<lifecycle, form, attempt, attempts, pureVars, req, searches, lookup>>

NextTxn ==
    \/ log_search
    \/ save_connect
    \/ save_insert_case
    \/ save_insert_order
    \/ save_commit
    \/ save_raise
    \/ get_case_by_search_id

SpecTxn == Init /\ [][NextTxn]_vars

\* the committed saves for a search id
SavesFor(search_id) == { i \in 1..Len(saves) : saves[i].search_id = search_id }

\* how often x occurs in the sequence
Occurrences(seq, x) == Cardinality({ i \in 1..Len(seq) : seq[i] = x })

\* the fields of a returned order row, under the names of the record
AsOrder(row) ==
    [date |-> row.order_date, type |-> row.order_type, pdf_url |-> row.pdf_url,
     text |-> row.order_text]

\* C15: when exactly one save_case_data(id, record) has committed for a logged
\* search id, whatever was logged and saved for other ids, what
\* get_case_by_search_id(id) returns has the record's title, petitioner,
\* respondent, dates, status and bench unchanged and exactly the record's
\* orders: as many, each with its date, type, URL and text.
C15_RoundTrip ==
    [][(get_case_by_search_id /\ lookup'.pc = "returned"
            /\ Cardinality(SavesFor(lookup'.search_id)) = 1) =>
        LET record == saves[CHOOSE i \in SavesFor(lookup'.search_id) : TRUE].record
            got == [i \in 1..Len(lookup'.orders) |-> AsOrder(lookup'.orders[i])]
        IN  /\ Len(lookup'.case) = 1
            /\ lookup'.case[1].search_id = lookup'.search_id
            /\ lookup'.case[1].case_title = record.case_title
            /\ lookup'.case[1].petitioner = record.petitioner
            /\ lookup'.case[1].respondent = record.respondent
            /\ lookup'.case[1].filing_date = record.filing_date
            /\ lookup'.case[1].next_hearing_date = record.next_hearing_date
            /\ lookup'.case[1].case_status = record.case_status
            /\ lookup'.case[1].bench_info = record.bench_info
            /\ Len(got) = Len(record.orders)
            /\ \A i \in 1..Len(got) :
                  Occurrences(got, got[i]) = Occurrences(record.orders, got[i])]_vars

\* a record with two orders, saved for the second search id after a record
\* with orders was saved for the first, came back with its orders in another
\* order than they were saved in
C15_Witness ==
    /\ lookup.pc = "returned"
    /\ lookup.search_id = 2
    /\ Cardinality(SavesFor(1)) = 1 /\ Cardinality(SavesFor(2)) = 1
    /\ Len(orders) = 4
    /\ Len(lookup.orders) = 2
    /\ AsOrder(lookup.orders[1]) = saves[CHOOSE i \in SavesFor(2) : TRUE].record.orders[2]

(***************************************************************************)
(* The /search route serving one client at a time (app.py:40-111), as the  *)
(* Flask test client of test_scraper.py:142-186 drives it.                 *)
(***************************************************************************)
NextRoute ==
    \/ route_validate(Caller)
    \/ route_log_search(Caller)
    \/ route_call_search(Caller)
    \/ search_case_step(Caller)
    \/ route_save_case(Caller)
    \/ route_mark_success(Caller)
    \/ route_search_raised(Caller)

SpecRoute == Init /\ [][NextRoute]_vars

\* nothing but blanks: empty after trimming
Blank(s) == \A i \in 1..Len(s) : s[i] = " "

\* one of the three required fields of the submitted form is blank
FieldMissing(raw) == Blank(raw.case_type) \/ Blank(raw.case_number) \/ Blank(raw.year)

\* C14: a /search request in which caseType, caseNumber or year is empty
\* after trimming is answered with "All fields are required"; for such a
\* request no search is logged and no search_case call is started.
C14_ValidatedBeforeCore ==
    /\ [](\A t \in Threads :
            (req[t].pc # "none" /\ FieldMissing(req[t].raw)) =>
                /\ req[t].pc = "responded"
                /\ req[t].response = "All fields are required"
                /\ req[t].search_id = 0)
    /\ [][\A t \in Threads :
            (req'[t].pc # "none" /\ FieldMissing(req'[t].raw)) =>
                /\ searches' = searches
                /\ attempt'[t] = attempt[t]
                /\ attempts'[t] = attempts[t]]_vars

\* a request whose case number was only blanks has been answered
C14_Witness ==
    /\ req[Caller].pc = "responded"
    /\ req[Caller].raw.case_number = << " " >>
    /\ req[Caller].raw.case_type # <<>>
    /\ req[Caller].response = "All fields are required"
    /\ searches = <<>>
    /\ attempts[Caller] = 0

\* the responses given after search_case has ended and persistence worked
AttemptResponses == {"redirect", "CAPTCHA verification required", "Error fetching case data"}

\* C16: Parsed is answered by storing the record and redirecting to the
\* case details of the search id, ChallengeRequired by the form prompting
\* for a challenge code, Failure by the form with an error message and the
\* failure message stored against the search id; in particular an attempt
\* in which the challenge control is visible and no code was supplied is
\* answered by the prompt for a code, not by the error message.
C16_OutcomeToResponse ==
    LET r == req[Caller]
        a == attempt[Caller]
        outcome == OutcomeOf(a.outcomes[1])
    IN  (r.pc = "responded" /\ r.response \in AttemptResponses) =>
            /\ outcome = "Parsed" =>
                  /\ r.response = "redirect"
                  /\ \E k \in 1..Len(cases) : cases[k].search_id = r.search_id
            /\ outcome = "ChallengeRequired" =>
                  r.response = "CAPTCHA verification required"
            /\ outcome = "Failure" =>
                  /\ r.response = "Error fetching case data"
                  /\ searches[r.search_id].error_message # "NULL"
            /\ ("captcha" \in Range(a.events) /\ ~DriverFaulted(a)
                   /\ form.captcha = "visible" /\ ~Truthy(a.code)) =>
                  r.response = "CAPTCHA verification required"

\* the tables of the document and the td cells of a row
TablesOf(d) == SelectSeq(d, LAMBDA n : n.tag = "table")
DataCells(row) == SelectSeq(row, LAMBDA c : c.tag = "td")

\* the lower-cased texts of the table's th cells, joined by spaces, contain
\* "order", "date" or "link"
OrdersHeader(table) ==
    LET ths == SelectSeq(Flatten(table.rows), LAMBDA c : c.tag = "th")
        joined == Join([i \in 1..Len(ths) |-> Lower(Strip(ths[i].text))])
    IN  \/ Contains(joined, <<"o","r","d","e","r">>)
        \/ Contains(joined, <<"d","a","t","e">>)
        \/ Contains(joined, <<"l","i","n","k">>)

\* a td cell of the row holds a date; an anchor of the row is a document link
RowHasDate(row) == \E c \in 1..Len(DataCells(row)) : HasDate(DataCells(row)[c].text)
RowHasLink(row) ==
    \E c \in 1..Len(row) : \E a \in 1..Len(row[c].hrefs) :
        \/ Contains(Lower(row[c].hrefs[a]), <<".","p","d","f">>)
        \/ Contains(Lower(row[c].hrefs[a]), <<"d","o","w","n","l","o","a","d">>)

\* the row's trimmed cell texts joined by single spaces
RawText(row) == Join([c \in 1..Len(DataCells(row)) |-> Strip(DataCells(row)[c].text)])

\* the rows that are to emit a record: <<table, row>> positions
EmittingRows(d) ==
    { p \in (1..Len(TablesOf(d))) \X (2..(MaxRows + 2)) :
        /\ p[2] <= Len(TablesOf(d)[p[1]].rows)
        /\ OrdersHeader(TablesOf(d)[p[1]])
        /\ Len(DataCells(TablesOf(d)[p[1]].rows[p[2]])) >= 2
        /\ (RowHasDate(TablesOf(d)[p[1]].rows[p[2]]) \/ RowHasLink(TablesOf(d)[p[1]].rows[p[2]])) }

RowAt(d, p) == TablesOf(d)[p[1]].rows[p[2]]

Before(p, q) == p[1] < q[1] \/ (p[1] = q[1] /\ p[2] < q[2])

\* the place of an emitting row among the emitting rows, in document order
PlaceOf(d, p) == Cardinality({ q \in EmittingRows(d) : Before(q, p) }) + 1

\* C22: the orders are in source order: by table in document order and by
\* row from top to bottom; the record of an emitting row stands at the place
\* the row has among the emitting rows, duplicates included.
C22_OrdersInSourceOrder ==
    scan.pc = "done" =>
        /\ Len(scan.orders) = Cardinality(EmittingRows(doc))
        /\ \A p \in EmittingRows(doc) :
              /\ scan.orders[PlaceOf(doc, p)].text = RawText(RowAt(doc, p))
              /\ (scan.orders[PlaceOf(doc, p)].date # None) <=> RowHasDate(RowAt(doc, p))

\* two tables emitted records, the second of them two with different texts,
\* and the records are not in descending order of text
C22_Witness ==
    /\ scan.pc = "done"
    /\ Len(TablesOf(doc)) = 2
    /\ Len(scan.orders) = 3
    /\ \E p, q, r \in EmittingRows(doc) : p[1] = 1 /\ q[1] = 2 /\ r[1] = 2 /\ q # r
    /\ scan.orders[1].text # scan.orders[2].text
    /\ scan.orders[2].text # scan.orders[3].text
    /\ scan.orders[1].text = scan.orders[3].text

(***************************************************************************)
(* Internal errors of the field extractors: each extractor runs in a       *)
(* `try` of its own whose `except Exception` returns the extractor's       *)
(* default (scraper.py:241-243, 268-270, 301-303, 326-328, 351-353,        *)
(* 411-413).                                                               *)
(***************************************************************************)
\* the exception leaves the extractor, and _parse_case_results with it
ExtractorExceptRaises(sc, extractor, next) ==
    [sc EXCEPT !.pc = "raised", !.faulted = @ \cup {extractor}]

\* `except Exception as e: logger.error(...); return <default>`
ExtractorExcept(sc, extractor, next) ==
    [sc EXCEPT !.pc = next, !.cursor = 1, !.faulted = @ \cup {extractor}]

\* scraper.py:241-243
title_error ==
    /\ scan.pc = "title"
    /\ scan' = ExtractorExcept([scan EXCEPT !.title = None], "title", "parties")
    /\ UNCHANGED <<lifecycle, form, attempt, attempts, page, classified, href, resolved, doc,
                   appVars>>

\* scraper.py:268-270
parties_error ==
    /\ scan.pc = "parties"
    /\ scan' = ExtractorExcept([scan EXCEPT !.parties = NoParties], "parties", "dates")
    /\ UNCHANGED <<lifecycle, form, attempt, attempts, page, classified, href, resolved, doc,
                   appVars>>

\* scraper.py:301-303
dates_error ==
    /\ scan.pc = "dates"
    /\ scan' = ExtractorExcept([scan EXCEPT !.dates = NoDates], "dates", "status")
    /\ UNCHANGED <<lifecycle, form, attempt, attempts, page, classified, href, resolved, doc,
                   appVars>>

\* scraper.py:326-328
status_error ==
    /\ scan.pc = "status"
    /\ scan' = ExtractorExcept([scan EXCEPT !.status = None], "status", "bench")
    /\ UNCHANGED <<lifecycle, form, attempt, attempts, page, classified, href, resolved, doc,
                   appVars>>

\* scraper.py:351-353
bench_error ==
    /\ scan.pc = "bench"
    /\ scan' = ExtractorExcept([scan EXCEPT !.bench = None], "bench", "orders")
    /\ UNCHANGED <<lifecycle, form, attempt, attempts, page, classified, href, resolved, doc,
                   appVars>>

\* scraper.py:411-413
orders_error ==
    /\ scan.pc = "orders"
    /\ scan' = ExtractorExcept([scan EXCEPT !.orders = <<>>], "orders", "done")
    /\ UNCHANGED <<lifecycle, form, attempt, attempts, page, classified, href, resolved, doc,
                   appVars>>

\* pages with every field, with parties only, with orders only, with nothing
FaultDocs ==
    { << Element("h2", "", "", <<"R","a","m"," ","v","s"," ","S","t","a","t","e"," ","o","f"," ","D","e","l","h","i">>),
         Table(<< Row2(<<"P","e","t","i","t","i","o","n","e","r">>,
                    <<"R","a","m">>),
                  Row2(<<"R","e","s","p","o","n","d","e","n","t">>,
                    <<"S","t","a","t","e">>),
                  Row2(<<"F","i","l","i","n","g"," ","D","a","t","e">>,
                    <<"0","1","-","0","2","-","2","0","2","3">>),
                  Row2(<<"N","e","x","t"," ","H","e","a","r","i","n","g">>,
                    <<"1","0","-","1","1","-","2","0","2","4">>),
                  Row2(<<"S","t","a","t","u","s">>,
                    <<"P","e","n","d","i","n","g">>),
                  Row2(<<"C","o","r","a","m">>,
                    <<"J","u","s","t","i","c","e"," ","A">>) >>),
         Table(<< << Cell("th", <<"O","r","d","e","r"," ","D","a","t","e">>), Cell("th", <<"L","i","n","k">>) >>,
                  << Cell("td", <<"0","1","-","0","1","-","2","0","2","4">>),
                     LinkCell("td", <<"V","i","e","w">>, << <<"/","o","r","d","e","r","s","/","1",".","p","d","f">> >>) >> >>) >>,
      << Table(<< Row2(<<"P","e","t","i","t","i","o","n","e","r">>,
                    <<"T","e","s","t"," ","P","e","t","i","t","i","o","n","e","r">>),
                  Row2(<<"R","e","s","p","o","n","d","e","n","t">>,
                    <<"T","e","s","t"," ","R","e","s","p","o","n","d","e","n","t">>) >>) >>,
      << Table(<< << Cell("th", <<"D","a","t","e">>), Cell("th", <<"O","r","d","e","r">>) >>,
                  << Cell("td", <<"1","5","-","0","3","-","2","0","2","3">>),
                     LinkCell("td", <<"G","e","t">>, << <<"d","o","w","n","l","o","a","d",".","p","d","f">> >>) >>,
                  << Cell("td", <<"1","6","-","0","3","-","2","0","2","3">>), Cell("td", <<"N","o","t","i","c","e">>) >> >>) >>,
      << >> }

InitFaulty ==
    /\ InitConstructed
    /\ InitIdle
    /\ NoPage
    /\ NoHref
    /\ doc \in FaultDocs
    /\ scan = StartScan

NextFaulty ==
    \/ NextExtract
    \/ title_error
    \/ parties_error
    \/ dates_error
    \/ status_error
    \/ bench_error
    \/ orders_error

SpecFaulty == InitFaulty /\ [][NextFaulty]_vars

\* the last row, in document order, that satisfies Q (0 when none does)
LastRow(rows, Q(_)) ==
    IF \E i \in 1..Len(rows) : Q(rows[i])
    THEN CHOOSE i \in 1..Len(rows) : Q(rows[i]) /\ \A j \in (i + 1)..Len(rows) : ~Q(rows[j])
    ELSE 0

\* the value of the row found, absent when none was
ValueAt(rows, i) == IF i = 0 THEN None ELSE ValueOf(rows[i])
DateAtRow(rows, i) == IF i = 0 THEN None ELSE FirstDate(ValueOf(rows[i]))

\* C23: no extractor's internal error leaves _parse_case_results: the run
\* ends with `return case_data`; the fields of an extractor that hit an
\* internal error or found no match are absent (orders is empty), and the
\* fields of every other extractor are what that extractor finds in the
\* document, whichever other extractors failed.
C23_ExtractorsNeverFail ==
    /\ scan.pc # "raised"
    /\ scan.pc = "done" =>
        LET rows == RowsVisited(doc) IN
        /\ scan.title =
              IF "title" \in scan.faulted \/ LongCandidates(doc) = {} THEN None
              ELSE CandidateText(doc, CHOOSE k \in LongCandidates(doc) :
                                          \A j \in LongCandidates(doc) : k <= j)
        /\ scan.parties =
              IF "parties" \in scan.faulted THEN [petitioner |-> None, respondent |-> None]
              ELSE [petitioner |-> ValueAt(rows, LastRow(rows, QualifiesPetitioner)),
                    respondent |-> ValueAt(rows, LastRow(rows, QualifiesRespondent))]
        /\ scan.dates =
              IF "dates" \in scan.faulted
              THEN [filing_date |-> None, next_hearing_date |-> None]
              ELSE [filing_date |-> DateAtRow(rows, LastRow(rows, QualifiesFiling)),
                    next_hearing_date |-> DateAtRow(rows, LastRow(rows, QualifiesHearing))]
        /\ scan.status =
              IF "status" \in scan.faulted THEN None ELSE ValueAt(rows, FirstRow(rows, StatusRow))
        /\ scan.bench =
              IF "bench" \in scan.faulted THEN None ELSE ValueAt(rows, FirstRow(rows, BenchRow))
        /\ "orders" \in scan.faulted => scan.orders = <<>>
        /\ "orders" \notin scan.faulted =>
              /\ Len(scan.orders) = Cardinality(EmittingRows(doc))
              /\ \A p \in EmittingRows(doc) :
                    scan.orders[PlaceOf(doc, p)].text = RawText(RowAt(doc, p))

\* the run returned after the parties extractor failed on a page that names
\* the parties, with the title, the status and an order found
C23_Witness ==
    /\ scan.pc = "done"
    /\ scan.faulted = {"parties"}
    /\ FirstRow(RowsVisited(doc), QualifiesPetitioner) # 0
    /\ scan.parties = [petitioner |-> None, respondent |-> None]
    /\ scan.title # None /\ scan.status # None /\ Len(scan.orders) = 1

(***************************************************************************)
(* One client sending /search requests one after the other                 *)
(* (app.py:40-111, test_scraper.py:219-258).                               *)
(***************************************************************************)
MaxSerial == 2        \* requests the client sends

NextSerial ==
    \/ route_accept(Caller, MaxSerial)
    \/ route_log_search(Caller)
    \/ route_call_search(Caller)
    \/ search_case_step(Caller)
    \/ route_save_case(Caller)
    \/ route_mark_success(Caller)
    \/ route_search_raised(Caller)

SpecSerial == Init /\ [][NextSerial]_vars

\* a case row is stored for the search id
CaseStored(search_id) == \E k \in 1..Len(cases) : cases[k].search_id = search_id

\* C24: whatever requests were served and whichever persistence calls
\* failed, a search row is marked successful only if a case row is stored for
\* its id, and a search row with a recorded failure or challenge message is
\* not marked successful.
C24_SuccessOnlyWithCase ==
    \A id \in 1..Len(searches) :
        /\ searches[id].success => CaseStored(id)
        /\ searches[id].error_message # "NULL" => ~searches[id].success

\* a search marked successful with its case stored, followed by a search
\* with a recorded failure message
C24_Witness ==
    /\ Len(searches) = 2
    /\ searches[1].success /\ CaseStored(1)
    /\ searches[2].error_message # "NULL" /\ ~searches[2].success /\ ~CaseStored(2)
    /\ req[Caller].pc = "responded"


\* ---------------------------------------------------------------------------
\* C25
\* ---------------------------------------------------------------------------

\* the order rows of case k, in insertion order
OrderRowsOf(k) == SelectSeq(orders, LAMBDA o : o.case_id = k)

\* the order rows the k-th committed call was given
FullOrderList(k) ==
    [i \in 1..Len(saves[k].record.orders) |-> OrderRow(k, saves[k].record.orders[i])]

\* every case row stands with its full order list, and every order row with
\* its case row
TablesWhole ==
    /\ Len(cases) = Len(saves)
    /\ \A k \in 1..Len(cases) :
         /\ cases[k] = CaseRow(saves[k].search_id, saves[k].record)
         /\ OrderRowsOf(k) = FullOrderList(k)
    /\ \A i \in 1..Len(orders) : orders[i].case_id \in 1..Len(cases)

\* what a lookup returns is a stored case together with all of its orders
LookupWhole ==
    lookup.pc = "returned" =>
        IF lookup.case = << >>
        THEN lookup.orders = << >>
        ELSE \E k \in 1..Len(saves) :
                /\ saves[k].search_id = lookup.search_id
                /\ lookup.case[1] = StoredCase(CaseRow(saves[k].search_id, saves[k].record))
                /\ Len(lookup.orders) = Len(saves[k].record.orders)

\* C25: save_case_data commits the case row and all of its order rows
\* together: a call that raises leaves the stored state as it was, and
\* neither a case row without its full order list nor an order row without
\* its case row is ever in the tables get_case_by_search_id reads.
C25_SaveIsAtomic ==
    /\ [](TablesWhole /\ LookupWhole)
    /\ [][save_raise => (cases' = cases /\ orders' = orders)]_vars
    /\ [][(cases' # cases \/ orders' # orders) =>
            /\ txn.pc = "open" /\ txn'.pc = "committed"
            /\ cases' = Append(cases, CaseRow(txn.search_id, txn.record))
            /\ orders' = orders \o [i \in 1..Len(txn.record.orders) |->
                                      OrderRow(Len(cases) + 1, txn.record.orders[i])]]_vars

\* a call raised after the case row and one of its two order rows had been
\* inserted, an earlier call had committed, and a lookup of the failed call's
\* search id finds no case
C25_Witness ==
    /\ txn.pc = "raised"
    /\ txn.case_inserted
    /\ txn.orders_inserted = 1
    /\ Len(txn.record.orders) = 2
    /\ Len(cases) = 1
    /\ cases[1].search_id # txn.search_id
    /\ lookup.pc = "returned"
    /\ lookup.search_id = txn.search_id
    /\ lookup.case = << >>

====
